---- MODULE Spec2Model ----
(***************************************************************************)
(* A model of go-rc2sb: the conversion of a Resource Container (RC)        *)
(* directory into a Scripture Burrito (SB) directory.                      *)
(*                                                                         *)
(* Go strings (paths, file names, file contents, identifiers) are modelled *)
(* as sequences of lexical chunks: "./01-GEN.usfm" is                      *)
(* <<"./", "01", "-", "GEN", ".usfm">>.  Every string operation of the     *)
(* code (TrimPrefix, Base, Ext, SplitN, the regular expression, the line   *)
(* scanner) is computed on those sequences.  The file system is one map    *)
(* from path to content; a directory exists when a file lies under it.     *)
(* The input directory, the external payload directory and the output      *)
(* directories are disjoint trees of that map.                             *)
(***************************************************************************)
EXTENDS Integers, Sequences, FiniteSets, TLC

VARIABLES
    registry,    \* handler.registry: subject -> Handler
    regPos,      \* how many Register calls of subjects.init() have run
    input,       \* the prepared input: manifest.yaml as parsed, Options
    disk,        \* the file system: path -> content
    now,         \* the wall clock read by time.Now()
    pc,          \* per Convert call: the position in Convert / Handler.Convert
    ctx,         \* per Convert call: TRUE when ctx.Err() != nil
    manifest,    \* per Convert call: the *rc.Manifest LoadManifest returned
    hnd,         \* per Convert call: the Handler Lookup returned
    meta,        \* per Convert call: the *sb.Metadata the handler builds
    loc,         \* per Convert call: the handler's local variables
    herr,        \* per Convert call: the error the handler returned
    ret,         \* per Convert call: what Convert returned (Result, error)
    metaWrites,  \* per Convert call: number of Metadata.WriteToFile executions
    mkdirDone,   \* per Convert call: os.MkdirAll(outDir) has been executed
    names        \* the last call of books.LocalizedNameEntryWithNames

vars == <<registry, regPos, input, disk, now, pc, ctx, manifest, hnd, meta,
          loc, herr, ret, metaWrites, mkdirDone, names>>

(***************************************************************************)
(* Bounds of the model.                                                    *)
(***************************************************************************)
MaxProjects == 2     \* longest manifest project list
MaxClock == 1        \* how far the wall clock advances
MaxLines == 2        \* most lines of a TSV text

Procs == {1, 2}      \* Convert calls (the second one only runs in SpecConc)

(***************************************************************************)
(* String primitives on chunk sequences.                                   *)
(***************************************************************************)
EmptyMap == [x \in {} |-> x]

HasPrefix(s, pre) ==
    Len(s) >= Len(pre) /\ SubSeq(s, 1, Len(pre)) = pre

HasSuffix(s, suf) ==
    Len(s) >= Len(suf) /\ SubSeq(s, Len(s) - Len(suf) + 1, Len(s)) = suf

TrimPrefix(s, pre) ==
    IF HasPrefix(s, pre) THEN SubSeq(s, Len(pre) + 1, Len(s)) ELSE s

TrimSuffix(s, suf) ==
    IF HasSuffix(s, suf) THEN SubSeq(s, 1, Len(s) - Len(suf)) ELSE s

\* Number of chunks of s equal to c (strings.Count for an atomic chunk).
Count(s, c) == Cardinality({i \in 1..Len(s) : s[i] = c})

\* Chunks that hold a path separator.
IsSep(c) == c \in {"/", "./"}

\* filepath.Join(dir, rel) for clean operands.
Join(dir, rel) == IF rel = <<>> THEN dir ELSE dir \o <<"/">> \o rel

\* filepath.Base: what follows the last separator.
Base(path) ==
    LET seps == {i \in 1..Len(path) : IsSep(path[i])}
        last == IF seps = {} THEN 0
                ELSE CHOOSE i \in seps : \A j \in seps : j <= i
    IN  SubSeq(path, last + 1, Len(path))

\* filepath.Ext: the suffix of the last element that starts at its final dot.
ExtChunks == {".usfm", ".tsv", ".md", ".yaml", ".yml", ".json", ".txt",
              ".gitignore"}

Ext(path) ==
    IF Len(path) > 0 /\ path[Len(path)] \in ExtChunks
    THEN <<path[Len(path)]>> ELSE <<>>

\* strings.ToUpper / strings.ToLower on the identifiers of the model.
UpperChunk(c) ==
    CASE c = "gen" -> "GEN" [] c = "exo" -> "EXO" [] c = "frt" -> "FRT"
      [] c = "obs" -> "OBS" [] c = "ult" -> "ULT" [] c = "intro" -> "INTRO"
      [] c = "process" -> "PROCESS"
      [] OTHER -> c

LowerChunk(c) ==
    CASE c = "GEN" -> "gen" [] c = "EXO" -> "exo" [] c = "FRT" -> "frt"
      [] c = "OBS" -> "obs" [] c = "ULT" -> "ult"
      [] OTHER -> c

ToUpper(s) == [i \in 1..Len(s) |-> UpperChunk(s[i])]
ToLower(s) == [i \in 1..Len(s) |-> LowerChunk(s[i])]

\* Byte length of a chunk, for file sizes.
ChunkBytes(c) ==
    CASE c = "rc://" -> 5
      [] c = "/tw/dict/bible/" -> 15
      [] c = "./payload/" -> 10
      [] c = ".md" -> 3
      [] OTHER -> 1

RECURSIVE ByteLen(_)
ByteLen(s) == IF s = <<>> THEN 0 ELSE ChunkBytes(Head(s)) + ByteLen(Tail(s))

(***************************************************************************)
(* The file system.                                                        *)
(***************************************************************************)
FileExists(d, path) == path \in DOMAIN d

FilesUnder(d, dir) == {f \in DOMAIN d : HasPrefix(f, dir \o <<"/">>)}

DirExists(d, dir) == FilesUnder(d, dir) # {}

\* os.Stat(path) succeeds.
StatOk(d, path) == FileExists(d, path) \/ DirExists(d, path)

\* filepath.Rel(dir, f) for f under dir.
Rel(dir, f) == SubSeq(f, Len(dir) + 2, Len(f))

WriteFile(d, path, content) == (path :> content) @@ d

InDir == <<"IN">>
ExtDir == <<"EXT">>
OutDir(p) == IF p = 1 THEN <<"OUT1">> ELSE <<"OUT2">>

NoErr == <<>>
Canceled == <<"context canceled">>

(***************************************************************************)
(* books: the canonical table (two of its 66 rows, and no others).         *)
(***************************************************************************)
AllBooks ==
    { [ID |-> "gen", Code |-> "GEN", Abbr |-> "Gen", Short |-> "Genesis",
       Long |-> "The Book of Genesis"],
      [ID |-> "exo", Code |-> "EXO", Abbr |-> "Exo", Short |-> "Exodus",
       Long |-> "The Book of Exodus"] }

NoBook == [ID |-> "", Code |-> "", Abbr |-> "", Short |-> "", Long |-> ""]

\* books.ByID: the row of a (lowercased) one-chunk identifier, or NoBook (nil).
ByID(id) ==
    LET low == ToLower(id)
        rows == {b \in AllBooks : low = <<b.ID>>}
    IN  IF rows = {} THEN NoBook ELSE CHOOSE b \in rows : TRUE

IsBookID(id) == ByID(id) # NoBook

CodeFromProjectID(id) ==
    LET b == ByID(id)
    IN  IF b # NoBook THEN <<b.Code>> ELSE ToUpper(id)

NoLocalizedName == [Abbr |-> EmptyMap, Short |-> EmptyMap, Long |-> EmptyMap]

\* books.LocalizedNameEntry: (key, LocalizedName); key "" for an unknown id.
LocalizedNameEntry(id) ==
    LET b == ByID(id)
    IN  IF b = NoBook
        THEN [key |-> <<>>, name |-> NoLocalizedName]
        ELSE [key |-> <<"book-", b.ID>>,
              name |-> [Abbr  |-> ("en" :> b.Abbr),
                        Short |-> ("en" :> b.Short),
                        Long  |-> ("en" :> b.Long)]]

\* *LocalizedBookNames: nil, or the three strings read from the markup.
NoUSFMNames == [isNil |-> TRUE, Long |-> "", Short |-> "", Abbr |-> ""]

\* The name resolution, were the title and the markup names left aside.
LocalizedNameEntryWithNames_englishOnly(id, lang, projectTitle, usfmNames) ==
    LocalizedNameEntry(id)

\* The name resolution, were the markup values written over the English
\* names whatever the target language.
LocalizedNameEntryWithNames_oneBucket(id, lang, projectTitle, usfmNames) ==
    LET b == ByID(id)
        pick(value, default) ==
            IF ~usfmNames.isNil /\ value # "" THEN value ELSE default
    IN  IF b = NoBook
        THEN [key |-> <<>>, name |-> NoLocalizedName]
        ELSE [key |-> <<"book-", b.ID>>,
              name |-> [Abbr  |-> ("en" :> pick(usfmNames.Abbr, b.Abbr)),
                        Short |-> ("en" :> pick(usfmNames.Short, b.Short)),
                        Long  |-> ("en" :> pick(usfmNames.Long, b.Long))]]

\* books.LocalizedNameEntryWithNames.
LocalizedNameEntryWithNames(id, lang, projectTitle, usfmNames) ==
    LET b == ByID(id)
        en == [Abbr  |-> ("en" :> b.Abbr),
               Short |-> ("en" :> b.Short),
               Long  |-> ("en" :> b.Long)]
        has(f) == ~usfmNames.isNil /\ f # ""
        enOver ==
            [Abbr  |-> IF has(usfmNames.Abbr)
                       THEN ("en" :> usfmNames.Abbr) ELSE en.Abbr,
             Short |-> IF has(usfmNames.Short)
                       THEN ("en" :> usfmNames.Short) ELSE en.Short,
             Long  |-> IF has(usfmNames.Long)
                       THEN ("en" :> usfmNames.Long) ELSE en.Long]
        localLong  == IF has(usfmNames.Long) THEN usfmNames.Long
                      ELSE projectTitle
        localShort == IF has(usfmNames.Short) THEN usfmNames.Short
                      ELSE projectTitle
        other ==
            [Abbr  |-> IF has(usfmNames.Abbr)
                       THEN (lang :> usfmNames.Abbr) @@ en.Abbr ELSE en.Abbr,
             Short |-> IF localShort # ""
                       THEN (lang :> localShort) @@ en.Short ELSE en.Short,
             Long  |-> IF localLong # ""
                       THEN (lang :> localLong) @@ en.Long ELSE en.Long]
    IN  IF b = NoBook
        THEN [key |-> <<>>, name |-> NoLocalizedName]
        ELSE [key |-> <<"book-", b.ID>>,
              name |-> IF lang = "en" THEN enOver ELSE other]

(***************************************************************************)
(* sb: ingredients.                                                        *)
(***************************************************************************)
\* sb.MIMETypeForExt.
MIMETypeForExt(ext) ==
    CASE ext = <<".md">>   -> "text/markdown"
      [] ext = <<".usfm">> -> "text/plain"
      [] ext = <<".tsv">>  -> "text/tab-separated-values"
      [] ext \in {<<".yaml">>, <<".yml">>} -> "text/yaml"
      [] ext = <<".json">> -> "application/json"
      [] ext = <<".txt">>  -> "text/plain"
      [] OTHER -> "text/markdown"

\* The MD5 digest of a content: a collision-free digest, tagged so that a
\* digest is never mistaken for the content it was computed from.
MD5(content) == <<"md5:">> \o content

NoIngredient ==
    [md5 |-> <<>>, mimeType |-> "", size |-> 0, scope |-> EmptyMap]

\* sb.ComputeIngredient: read the file at filePath and describe it.
ComputeIngredient(d, filePath) ==
    [md5      |-> MD5(d[filePath]),
     mimeType |-> MIMETypeForExt(Ext(filePath)),
     size     |-> ByteLen(d[filePath]),
     scope    |-> EmptyMap]

\* sb.ComputeIngredientWithScope.
ComputeIngredientWithScope(d, filePath, scope) ==
    [ComputeIngredient(d, filePath) EXCEPT !.scope = scope]

(***************************************************************************)
(* handler/common.go: copying.  A copy returns the error, the new file     *)
(* system and (where the code computes one) the ingredient.                *)
(***************************************************************************)
\* handler.CopyFile: os.Open(src) fails when src is no file.
CopyFile(d, src, dst) ==
    IF ~FileExists(d, src)
    THEN [err |-> <<"opening source">>, disk |-> d]
    ELSE [err |-> NoErr, disk |-> WriteFile(d, dst, d[src])]

\* handler.CopyFileAndComputeIngredient.
CopyFileAndComputeIngredient(d, src, outDir, ingredientKey) ==
    LET dst == Join(outDir, ingredientKey)
        c   == CopyFile(d, src, dst)
    IN  IF c.err # NoErr
        THEN [err |-> c.err, disk |-> c.disk, ing |-> NoIngredient]
        ELSE [err |-> NoErr, disk |-> c.disk,
              ing |-> ComputeIngredient(c.disk, dst)]

\* handler.CopyFileWithScope.
CopyFileWithScope(d, src, outDir, ingredientKey, scope) ==
    LET dst == Join(outDir, ingredientKey)
        c   == CopyFile(d, src, dst)
    IN  IF c.err # NoErr
        THEN [err |-> c.err, disk |-> c.disk, ing |-> NoIngredient]
        ELSE [err |-> NoErr, disk |-> c.disk,
              ing |-> ComputeIngredientWithScope(c.disk, dst, scope)]

\* handler.copyTreeToIngredients: filepath.Walk over srcDir, every regular
\* file copied to destPrefix/<relative path> and recorded in m.Ingredients.
\* Walk reports an error when srcDir does not exist.  (srcDir is a directory
\* in every input of the model.)
copyTreeToIngredients(d, m, srcDir, outDir, destPrefix) ==
    LET files   == FilesUnder(d, srcDir)
        key(f)  == destPrefix \o <<"/">> \o Rel(srcDir, f)
        keys    == {key(f) : f \in files}
        srcOf(k) == CHOOSE f \in files : key(f) = k
        d2 == [q \in DOMAIN d \cup {Join(outDir, k) : k \in keys} |->
                 IF \E k \in keys : q = Join(outDir, k)
                 THEN d[srcOf(CHOOSE k \in keys : q = Join(outDir, k))]
                 ELSE d[q]]
        ing2 == [k \in DOMAIN m.ingredients \cup keys |->
                   IF k \in keys THEN ComputeIngredient(d2, Join(outDir, k))
                   ELSE m.ingredients[k]]
    IN  IF ~DirExists(d, srcDir)
        THEN [err |-> <<"lstat">>, disk |-> d, m |-> m]
        ELSE [err |-> NoErr, disk |-> d2, m |-> [m EXCEPT !.ingredients = ing2]]

(***************************************************************************)
(* handler: the registry.                                                  *)
(***************************************************************************)
\* The Handler values subjects.init() constructs, in its order.
InitHandlers ==
    << [kind |-> "obs",    subject |-> "",  abbreviation |-> <<>>, tsvPrefix |-> <<>>, flavorName |-> ""],
       [kind |-> "bible",  subject |-> "Aligned Bible",
        abbreviation |-> <<>>, tsvPrefix |-> <<>>, flavorName |-> ""],
       [kind |-> "bible",  subject |-> "Bible",
        abbreviation |-> <<>>, tsvPrefix |-> <<>>, flavorName |-> ""],
       [kind |-> "bible",  subject |-> "Hebrew Old Testament",
        abbreviation |-> <<>>, tsvPrefix |-> <<>>, flavorName |-> ""],
       [kind |-> "bible",  subject |-> "Greek New Testament",
        abbreviation |-> <<>>, tsvPrefix |-> <<>>, flavorName |-> ""],
       [kind |-> "tw",     subject |-> "",  abbreviation |-> <<>>, tsvPrefix |-> <<>>, flavorName |-> ""],
       [kind |-> "ta",     subject |-> "",  abbreviation |-> <<>>, tsvPrefix |-> <<>>, flavorName |-> ""],
       [kind |-> "tn",     subject |-> "",  abbreviation |-> <<>>, tsvPrefix |-> <<>>, flavorName |-> ""],
       [kind |-> "tq",     subject |-> "",  abbreviation |-> <<>>, tsvPrefix |-> <<>>, flavorName |-> ""],
       [kind |-> "twl",    subject |-> "",  abbreviation |-> <<>>, tsvPrefix |-> <<>>, flavorName |-> ""],
       [kind |-> "obstsv", subject |-> "TSV OBS Study Notes",
        abbreviation |-> <<"OBSSN">>, tsvPrefix |-> <<"sn_">>,
        flavorName |-> "x-obsnotes"],
       [kind |-> "obstsv", subject |-> "TSV OBS Study Questions",
        abbreviation |-> <<"OBSSQ">>, tsvPrefix |-> <<"sq_">>,
        flavorName |-> "x-obsquestions"],
       [kind |-> "obstsv", subject |-> "TSV OBS Translation Notes",
        abbreviation |-> <<"OBSTN">>, tsvPrefix |-> <<"tn_">>,
        flavorName |-> "x-obsnotes"],
       [kind |-> "obstsv", subject |-> "TSV OBS Translation Questions",
        abbreviation |-> <<"OBSTQ">>, tsvPrefix |-> <<"tq_">>,
        flavorName |-> "x-obsquestions"] >>

NoHandler == [kind |-> "nil", subject |-> "", abbreviation |-> <<>>,
              tsvPrefix |-> <<>>, flavorName |-> ""]

\* Handler.Subject(): each implementation's method.
obsHandler_Subject(h)    == "Open Bible Stories"
\* bibleHandler.Subject, were it the one subject of the handler's first days.
bibleHandler_Subject_single(h) == "Bible"
bibleHandler_Subject(h)  == h.subject
twHandler_Subject(h)     == "Translation Words"
taHandler_Subject(h)     == "Translation Academy"
tnHandler_Subject(h)     == "TSV Translation Notes"
tqHandler_Subject(h)     == "TSV Translation Questions"
twlHandler_Subject(h)    == "TSV Translation Words Links"
obsTSVHandler_Subject(h) == h.subject

Subject(h) ==
    CASE h.kind = "obs"    -> obsHandler_Subject(h)
      [] h.kind = "bible"  -> bibleHandler_Subject(h)
      [] h.kind = "tw"     -> twHandler_Subject(h)
      [] h.kind = "ta"     -> taHandler_Subject(h)
      [] h.kind = "tn"     -> tnHandler_Subject(h)
      [] h.kind = "tq"     -> tqHandler_Subject(h)
      [] h.kind = "twl"    -> twlHandler_Subject(h)
      [] h.kind = "obstsv" -> obsTSVHandler_Subject(h)

\* The bytes of the subject strings, for sort.Strings.
Bytes(s) ==
    CASE s = "Open Bible Stories" ->
       <<79, 112, 101, 110, 32, 66, 105, 98, 108, 101, 32, 83, 116, 111, 114, 105, 101, 115>>
  [] s = "Aligned Bible" ->
       <<65, 108, 105, 103, 110, 101, 100, 32, 66, 105, 98, 108, 101>>
  [] s = "Bible" ->
       <<66, 105, 98, 108, 101>>
  [] s = "Hebrew Old Testament" ->
       <<72, 101, 98, 114, 101, 119, 32, 79, 108, 100, 32, 84, 101, 115, 116, 97, 109, 101, 110, 116>>
  [] s = "Greek New Testament" ->
       <<71, 114, 101, 101, 107, 32, 78, 101, 119, 32, 84, 101, 115, 116, 97, 109, 101, 110, 116>>
  [] s = "Translation Words" ->
       <<84, 114, 97, 110, 115, 108, 97, 116, 105, 111, 110, 32, 87, 111, 114, 100, 115>>
  [] s = "Translation Academy" ->
       <<84, 114, 97, 110, 115, 108, 97, 116, 105, 111, 110, 32, 65, 99, 97, 100, 101, 109, 121>>
  [] s = "TSV Translation Notes" ->
       <<84, 83, 86, 32, 84, 114, 97, 110, 115, 108, 97, 116, 105, 111, 110, 32, 78, 111, 116, 101, 115>>
  [] s = "TSV Translation Questions" ->
       <<84, 83, 86, 32, 84, 114, 97, 110, 115, 108, 97, 116, 105, 111, 110, 32, 81, 117, 101, 115, 116, 105, 111, 110, 115>>
  [] s = "TSV Translation Words Links" ->
       <<84, 83, 86, 32, 84, 114, 97, 110, 115, 108, 97, 116, 105, 111, 110, 32, 87, 111, 114, 100, 115, 32, 76, 105, 110, 107, 115>>
  [] s = "TSV OBS Study Notes" ->
       <<84, 83, 86, 32, 79, 66, 83, 32, 83, 116, 117, 100, 121, 32, 78, 111, 116, 101, 115>>
  [] s = "TSV OBS Study Questions" ->
       <<84, 83, 86, 32, 79, 66, 83, 32, 83, 116, 117, 100, 121, 32, 81, 117, 101, 115, 116, 105, 111, 110, 115>>
  [] s = "TSV OBS Translation Notes" ->
       <<84, 83, 86, 32, 79, 66, 83, 32, 84, 114, 97, 110, 115, 108, 97, 116, 105, 111, 110, 32, 78, 111, 116, 101, 115>>
  [] s = "TSV OBS Translation Questions" ->
       <<84, 83, 86, 32, 79, 66, 83, 32, 84, 114, 97, 110, 115, 108, 97, 116, 105, 111, 110, 32, 81, 117, 101, 115, 116, 105, 111, 110, 115>>
  [] s = "Unknown Subject Type" ->
       <<85, 110, 107, 110, 111, 119, 110, 32, 83, 117, 98, 106, 101, 99, 116, 32, 84, 121, 112, 101>>

\* a < b in Go's string order (bytewise lexicographic).
RECURSIVE BytesLess(_, _)
BytesLess(a, b) ==
    IF b = <<>> THEN FALSE
    ELSE IF a = <<>> THEN TRUE
    ELSE IF Head(a) # Head(b) THEN Head(a) < Head(b)
    ELSE BytesLess(Tail(a), Tail(b))

StringLess(a, b) == BytesLess(Bytes(a), Bytes(b))

\* sort.Strings: the strings of seq in ascending order.
RECURSIVE SortStrings(_)
SortStrings(seq) ==
    IF seq = <<>> THEN <<>>
    ELSE LET i == CHOOSE i \in 1..Len(seq) :
                      \A j \in 1..Len(seq) : ~StringLess(seq[j], seq[i])
         IN  <<seq[i]>> \o
             SortStrings(SubSeq(seq, 1, i - 1) \o SubSeq(seq, i + 1, Len(seq)))

\* The orders in which a range over the registry map may visit its keys (Go
\* leaves the order unspecified): the orders of the model are the
\* registration order, its reverse and its rotations.
RegistrationOrder(reg) ==
    LET all == [i \in 1..Len(InitHandlers) |-> Subject(InitHandlers[i])]
    IN  SelectSeq(all, LAMBDA s : s \in DOMAIN reg)

Reverse(seq) == [i \in 1..Len(seq) |-> seq[Len(seq) + 1 - i]]

Rotate(seq, k) == SubSeq(seq, k + 1, Len(seq)) \o SubSeq(seq, 1, k)

IterationOrders(reg) ==
    LET o == RegistrationOrder(reg)
    IN  {o, Reverse(o)} \cup {Rotate(o, k) : k \in 1..(Len(o) - 1)}

\* handler.SupportedSubjects, for one iteration order of the map.
\* SupportedSubjects, were the list left in the order the map yields it.
SupportedSubjects_unsorted(order) == order

SupportedSubjects(order) == SortStrings(order)

\* handler.Register: registry[h.Subject()] = h.
RegisterInto(reg, h) == (Subject(h) :> h) @@ reg

\* handler.Lookup: (Handler, error); the registry is only read.
Lookup(reg, subject, order) ==
    IF subject \in DOMAIN reg
    THEN [h |-> reg[subject], err |-> NoErr]
    ELSE [h |-> NoHandler,
          err |-> <<"unsupported subject", subject, "supported subjects:">>
                  \o SupportedSubjects(order)]

\* What a Lookup call leaves in the registry: Lookup assigns nothing.
\* The registry, were a lookup to take the entry it finds out of the map.
RegistryAfterLookup_forgets(reg, subject) ==
    [s \in DOMAIN reg \ {subject} |-> reg[s]]

RegistryAfterLookup(reg, subject) == reg

(***************************************************************************)
(* rc: the manifest.                                                       *)
(***************************************************************************)
NoManifest ==
    [dc |-> [subject |-> "", identifier |-> <<>>, title |-> "", lang |-> ""],
     projects |-> <<>>]

ManifestPath(dir) == Join(dir, <<"manifest", ".yaml">>)

\* rc.LoadManifest: os.ReadFile, then yaml.Unmarshal.  inp.yaml is what the
\* bytes of manifest.yaml parse to ("malformed" when they do not parse).
\* LoadManifest, were a missing or unparsable file read as an empty manifest.
LoadManifest_lenient(d, inp, dir) ==
    IF FileExists(d, ManifestPath(dir)) /\ inp.yaml # "malformed"
    THEN [m |-> inp.manifest, err |-> NoErr]
    ELSE [m |-> [NoManifest EXCEPT !.dc.subject = "Bible"], err |-> NoErr]

LoadManifest(d, inp, dir) ==
    IF ~FileExists(d, ManifestPath(dir))
    THEN [m |-> NoManifest,
          err |-> <<"not a valid Resource Container: manifest.yaml not found">>]
    ELSE IF inp.yaml = "malformed"
    THEN [m |-> NoManifest, err |-> <<"parsing manifest.yaml">>]
    ELSE [m |-> inp.manifest, err |-> NoErr]

(***************************************************************************)
(* sb: the metadata record.                                                *)
(***************************************************************************)
NilMetadata ==
    [dateCreated |-> 0, idAuthority |-> "", abbreviation |-> <<>>,
     name |-> "", languages |-> <<>>, flavorType |-> "", flavor |-> "",
     currentScope |-> EmptyMap, localizedNames |-> EmptyMap,
     ingredients |-> EmptyMap]

\* handler.BuildBaseMetadata (with sb.NewMetadata).
BuildBaseMetadata(mf, idAuthority, abbreviation, t) ==
    [dateCreated  |-> t,
     idAuthority  |-> idAuthority,
     abbreviation |-> IF abbreviation = <<>> THEN ToUpper(mf.dc.identifier)
                      ELSE abbreviation,
     name         |-> mf.dc.title,
     languages    |-> <<mf.dc.lang>>,
     flavorType   |-> "",
     flavor       |-> "",
     currentScope |-> EmptyMap,
     localizedNames |-> EmptyMap,
     ingredients  |-> EmptyMap]

MetadataPath(dir) == Join(dir, <<"metadata", ".json">>)

\* What json.MarshalIndent(m) plus the trailing newline puts in the file.
Marshal(m) == <<"{metadata}", "LF">>

\* Metadata.WriteToFile.
WriteToFile(d, m, dir) == WriteFile(d, MetadataPath(dir), Marshal(m))

(***************************************************************************)
(* handler/common.go: the files every handler copies.                      *)
(***************************************************************************)
LicenseName == <<"LICENSE", ".md">>
LicenseKey == <<"ingredients", "/", "LICENSE", ".md">>

\* handler.CopyLicenseIngredient.
CopyLicenseIngredient(d, inDir, outDir) ==
    CopyFileAndComputeIngredient(d, Join(inDir, LicenseName), outDir, LicenseKey)

RootFileNames == << <<"README", ".md">>, <<".gitignore">> >>
RootDirNames == << <<".gitea">>, <<".github">> >>

\* handler.CopyCommonRootFiles: README.md and .gitignore, then the .gitea and
\* .github trees, each when present; every copy is recorded in m.Ingredients.
RECURSIVE CopyRootFilesFrom(_, _, _, _, _)
CopyRootFilesFrom(i, d, m, inDir, outDir) ==
    IF i > Len(RootFileNames) THEN [err |-> NoErr, disk |-> d, m |-> m]
    ELSE LET name == RootFileNames[i]
             src  == Join(inDir, name)
         IN  IF ~StatOk(d, src)
             THEN CopyRootFilesFrom(i + 1, d, m, inDir, outDir)
             ELSE LET c == CopyFileAndComputeIngredient(d, src, outDir, name)
                  IN  IF c.err # NoErr
                      THEN [err |-> <<"copying root file">> \o c.err,
                            disk |-> c.disk, m |-> m]
                      ELSE CopyRootFilesFrom(i + 1, c.disk,
                               [m EXCEPT !.ingredients = (name :> c.ing) @@ @],
                               inDir, outDir)

RECURSIVE CopyRootDirsFrom(_, _, _, _, _)
CopyRootDirsFrom(i, d, m, inDir, outDir) ==
    IF i > Len(RootDirNames) THEN [err |-> NoErr, disk |-> d, m |-> m]
    ELSE LET dirName == RootDirNames[i]
             src     == Join(inDir, dirName)
         IN  IF ~DirExists(d, src)
             THEN CopyRootDirsFrom(i + 1, d, m, inDir, outDir)
             ELSE LET c == copyTreeToIngredients(d, m, src, outDir, dirName)
                  IN  IF c.err # NoErr
                      THEN [err |-> <<"copying root directory">> \o c.err,
                            disk |-> c.disk, m |-> c.m]
                      ELSE CopyRootDirsFrom(i + 1, c.disk, c.m, inDir, outDir)

CopyCommonRootFiles(d, m, inDir, outDir) ==
    LET f == CopyRootFilesFrom(1, d, m, inDir, outDir)
    IN  IF f.err # NoErr THEN f
        ELSE CopyRootDirsFrom(1, f.disk, f.m, inDir, outDir)

(***************************************************************************)
(* The handlers.  Each project step returns the error, the new file        *)
(* system, the metadata and the handler's locals.                          *)
(***************************************************************************)
NoLoc == [i |-> 0, currentScope |-> EmptyMap, hasPayload |-> FALSE,
          twBibleDir |-> <<>>]

IngredientsPrefix == <<"ingredients", "/">>

\* extractBookCode, were the token before the dash kept.
extractBookCode_keepPrefix(filename) == TrimSuffix(filename, Ext(filename))

\* handler.extractBookCode: drop the extension, keep what follows the first "-".
extractBookCode(filename) ==
    LET name   == TrimSuffix(filename, Ext(filename))
        dashes == {i \in 1..Len(name) : name[i] = "-"}
        first  == CHOOSE i \in dashes : \A j \in dashes : i <= j
    IN  IF dashes # {} THEN SubSeq(name, first + 1, Len(name)) ELSE name

\* bibleHandler.Convert, the body of the loop over manifest.Projects.
bibleProject(d, m, l, project, inDir, outDir) ==
    LET srcPath       == Join(inDir, TrimPrefix(project.path, <<"./">>))
        srcFilename   == Base(srcPath)
        bookCode      == extractBookCode(srcFilename)
        destFilename  == bookCode \o <<".usfm">>
        ingredientKey == IngredientsPrefix \o destFilename
        bookID        == ToLower(project.identifier)
        code          == CodeFromProjectID(bookID)
        scope         == IF IsBookID(bookID) THEN (code :> <<>>) ELSE EmptyMap
        l2 == IF IsBookID(bookID)
              THEN [l EXCEPT !.currentScope = (code :> <<>>) @@ @] ELSE l
        ln == LocalizedNameEntry(bookID)
        m2 == IF IsBookID(bookID) /\ ln.key # <<>>
              THEN [m EXCEPT !.localizedNames = (ln.key :> ln.name) @@ @]
              ELSE m
        c  == CopyFileWithScope(d, srcPath, outDir, ingredientKey, scope)
    IN  IF c.err # NoErr
        THEN [err |-> <<"copying">> \o c.err, disk |-> c.disk, m |-> m2,
              loc |-> l2]
        ELSE [err |-> NoErr, disk |-> c.disk,
              m |-> [m2 EXCEPT !.ingredients = (ingredientKey :> c.ing) @@ @],
              loc |-> l2]

(***************************************************************************)
(* Steps shared by the actions: how a handler returns.                     *)
(***************************************************************************)
\* ctx.Err(), were a cancellation never reported.
ctxErr_never(cancelled) == NoErr

\* ctx.Err(): nil until the context is cancelled, context.Canceled after.
ctxErr(cancelled) == IF cancelled THEN Canceled ELSE NoErr

\* return nil, err
HandlerFails(p, e) ==
    /\ herr' = [herr EXCEPT ![p] = e]
    /\ meta' = [meta EXCEPT ![p] = NilMetadata]
    /\ loc'  = [loc EXCEPT ![p] = NoLoc]
    /\ pc'   = [pc EXCEPT ![p] = "h_ret"]

\* return m, nil
HandlerReturns(p, m) ==
    /\ herr' = [herr EXCEPT ![p] = NoErr]
    /\ meta' = [meta EXCEPT ![p] = m]
    /\ loc'  = [loc EXCEPT ![p] = NoLoc]
    /\ pc'   = [pc EXCEPT ![p] = "h_ret"]

\* The loop header, were the context not looked at before an iteration.
LoopHeader_noCheck(p, after) ==
    /\ pc[p] = "proj_check"
    /\ pc' = [pc EXCEPT ![p] = IF loc[p].i > Len(manifest[p].projects)
                               THEN after ELSE "proj_copy"]
    /\ UNCHANGED <<registry, regPos, names, input, disk, now, ctx, manifest, hnd, ret,
                   metaWrites, mkdirDone, herr, meta, loc>>

\* The project loop header: "for _, project := range manifest.Projects" with
\* the ctx.Err() check that opens each iteration.
LoopHeader(p, after) ==
    /\ pc[p] = "proj_check"
    /\ IF loc[p].i > Len(manifest[p].projects)
       THEN /\ pc' = [pc EXCEPT ![p] = after]
            /\ UNCHANGED <<herr, meta, loc>>
       ELSE IF ctxErr(ctx[p]) # NoErr
       THEN HandlerFails(p, ctxErr(ctx[p]))
       ELSE /\ pc' = [pc EXCEPT ![p] = "proj_copy"]
            /\ UNCHANGED <<herr, meta, loc>>
    /\ UNCHANGED <<registry, regPos, names, input, disk, now, ctx, manifest, hnd, ret,
                   metaWrites, mkdirDone>>

\* One loop body, given what it computes.
LoopBody(p, r) ==
    /\ disk' = r.disk
    /\ IF r.err # NoErr
       THEN HandlerFails(p, r.err)
       ELSE /\ meta' = [meta EXCEPT ![p] = r.m]
            /\ loc'  = [loc EXCEPT ![p] = [r.loc EXCEPT !.i = @ + 1]]
            /\ pc'   = [pc EXCEPT ![p] = "proj_check"]
            /\ UNCHANGED herr
    /\ UNCHANGED <<registry, regPos, names, input, now, ctx, manifest, hnd, ret,
                   metaWrites, mkdirDone>>

\* A step that copies files and goes on to position next, or fails.
CopyStep(p, r, next) ==
    /\ disk' = r.disk
    /\ IF r.err # NoErr
       THEN HandlerFails(p, r.err)
       ELSE /\ meta' = [meta EXCEPT ![p] = r.m]
            /\ pc'   = [pc EXCEPT ![p] = next]
            /\ UNCHANGED <<herr, loc>>
    /\ UNCHANGED <<registry, regPos, names, input, now, ctx, manifest, hnd, ret,
                   metaWrites, mkdirDone>>

\* The last step of most handlers: CopyLicenseIngredient, then "return m, nil".
LicenseStep(p) ==
    LET c == CopyLicenseIngredient(disk, InDir, OutDir(p))
    IN  /\ disk' = c.disk
        /\ IF c.err # NoErr
           THEN HandlerFails(p, <<"copying LICENSE.md">> \o c.err)
           ELSE HandlerReturns(p, [meta[p] EXCEPT !.ingredients =
                                     (LicenseKey :> c.ing) @@ @])
        /\ UNCHANGED <<registry, regPos, names, input, now, ctx, manifest, hnd, ret,
                       metaWrites, mkdirDone>>

\* The top of every Handler.Convert: the ctx.Err() check, BuildBaseMetadata
\* and the flavor.
HandlerBegin(p, idAuthority, abbreviation, flavorType, flavor, scope, next) ==
    /\ pc[p] = "h_begin"
    /\ IF ctxErr(ctx[p]) # NoErr
       THEN HandlerFails(p, ctxErr(ctx[p]))
       ELSE /\ meta' = [meta EXCEPT ![p] =
                  [BuildBaseMetadata(manifest[p], idAuthority, abbreviation, now)
                     EXCEPT !.flavorType = flavorType, !.flavor = flavor,
                            !.currentScope = scope]]
            /\ loc' = [loc EXCEPT ![p] = [NoLoc EXCEPT !.i = 1]]
            /\ pc' = [pc EXCEPT ![p] = next]
            /\ UNCHANGED herr
    /\ UNCHANGED <<registry, regPos, names, input, disk, now, ctx, manifest, hnd, ret,
                   metaWrites, mkdirDone>>

\* bibleHandler.Convert.
bibleHandler_Convert(p) ==
    /\ hnd[p].kind = "bible"
    /\ \/ HandlerBegin(p, "uWBurritos", <<>>, "scripture", "textTranslation",
                        EmptyMap, "proj_check")
       \/ LoopHeader(p, "scope")
       \/ /\ pc[p] = "proj_copy"
          /\ LoopBody(p, bibleProject(disk, meta[p], loc[p],
                         manifest[p].projects[loc[p].i], InDir, OutDir(p)))
       \/ /\ pc[p] = "scope"
          /\ CopyStep(p, CopyCommonRootFiles(disk,
                 [meta[p] EXCEPT !.currentScope = loc[p].currentScope],
                 InDir, OutDir(p)), "license")
       \/ /\ pc[p] = "license"
          /\ LicenseStep(p)

\* tnHandler.Convert, the body of the loop over manifest.Projects.
tnProject(d, m, l, project, inDir, outDir) ==
    LET srcPath       == Join(inDir, TrimPrefix(project.path, <<"./">>))
        srcFilename   == Base(srcPath)
        destFilename  == TrimPrefix(srcFilename, <<"tn_">>)
        ingredientKey == IngredientsPrefix \o destFilename
        bookID        == ToLower(project.identifier)
        bookCode      == CodeFromProjectID(bookID)
        scope         == (bookCode :> <<>>)
        l2 == [l EXCEPT !.currentScope = (bookCode :> <<>>) @@ @]
        ln == LocalizedNameEntry(bookID)
        m2 == IF ln.key # <<>>
              THEN [m EXCEPT !.localizedNames = (ln.key :> ln.name) @@ @]
              ELSE m
        c  == CopyFileWithScope(d, srcPath, outDir, ingredientKey, scope)
    IN  IF c.err # NoErr
        THEN [err |-> <<"copying">> \o c.err, disk |-> c.disk, m |-> m2,
              loc |-> l2]
        ELSE [err |-> NoErr, disk |-> c.disk,
              m |-> [m2 EXCEPT !.ingredients = (ingredientKey :> c.ing) @@ @],
              loc |-> l2]

\* tnHandler.Convert.
tnHandler_Convert(p) ==
    /\ hnd[p].kind = "tn"
    /\ \/ HandlerBegin(p, "uWBurritos", <<"TN">>, "parascriptural",
                       "x-bcvnotes", EmptyMap, "proj_check")
       \/ LoopHeader(p, "scope")
       \/ /\ pc[p] = "proj_copy"
          /\ LoopBody(p, tnProject(disk, meta[p], loc[p],
                         manifest[p].projects[loc[p].i], InDir, OutDir(p)))
       \/ /\ pc[p] = "scope"
          /\ CopyStep(p, CopyCommonRootFiles(disk,
                 [meta[p] EXCEPT !.currentScope = loc[p].currentScope],
                 InDir, OutDir(p)), "license")
       \/ /\ pc[p] = "license"
          /\ LicenseStep(p)

\* The body of the loop of tqHandler.Convert, were the file not looked for
\* before it is copied.
tqProject_noStat(d, m, l, lang, project, inDir, outDir) ==
    LET srcPath       == Join(inDir, TrimPrefix(project.path, <<"./">>))
        ingredientKey == IngredientsPrefix
                         \o TrimPrefix(Base(srcPath), <<"tq_">>)
        bookCode      == CodeFromProjectID(ToLower(project.identifier))
        l2 == [l EXCEPT !.currentScope = (bookCode :> <<>>) @@ @]
        c  == CopyFileWithScope(d, srcPath, outDir, ingredientKey,
                                (bookCode :> <<>>))
    IN  IF c.err # NoErr
        THEN [err |-> <<"copying">> \o c.err, disk |-> c.disk, m |-> m,
              loc |-> l2]
        ELSE [err |-> NoErr, disk |-> c.disk,
              m |-> [m EXCEPT !.ingredients = (ingredientKey :> c.ing) @@ @],
              loc |-> l2]

\* tqHandler.Convert, the body of the loop over manifest.Projects; a project
\* whose file does not exist is skipped.  opts.USFMPath is "" in every call
\* rc2sb.Convert makes, so usfmNames stays nil.
tqProject(d, m, l, lang, project, inDir, outDir) ==
    LET srcPath       == Join(inDir, TrimPrefix(project.path, <<"./">>))
        srcFilename   == Base(srcPath)
        destFilename  == TrimPrefix(srcFilename, <<"tq_">>)
        ingredientKey == IngredientsPrefix \o destFilename
        bookID        == ToLower(project.identifier)
        bookCode      == CodeFromProjectID(bookID)
        scope         == (bookCode :> <<>>)
        l2 == [l EXCEPT !.currentScope = (bookCode :> <<>>) @@ @]
        ln == LocalizedNameEntryWithNames(bookID, lang, project.title,
                                          NoUSFMNames)
        m2 == IF ln.key # <<>>
              THEN [m EXCEPT !.localizedNames = (ln.key :> ln.name) @@ @]
              ELSE m
        c  == CopyFileWithScope(d, srcPath, outDir, ingredientKey, scope)
    IN  IF ~StatOk(d, srcPath)
        THEN [err |-> NoErr, disk |-> d, m |-> m, loc |-> l]
        ELSE IF c.err # NoErr
        THEN [err |-> <<"copying">> \o c.err, disk |-> c.disk, m |-> m2,
              loc |-> l2]
        ELSE [err |-> NoErr, disk |-> c.disk,
              m |-> [m2 EXCEPT !.ingredients = (ingredientKey :> c.ing) @@ @],
              loc |-> l2]

\* tqHandler.Convert.
tqHandler_Convert(p) ==
    /\ hnd[p].kind = "tq"
    /\ \/ HandlerBegin(p, "uWBurritos", <<"TQ">>, "parascriptural",
                       "x-bcvquestions", EmptyMap, "proj_check")
       \/ LoopHeader(p, "scope")
       \/ /\ pc[p] = "proj_copy"
          /\ LoopBody(p, tqProject(disk, meta[p], loc[p], manifest[p].dc.lang,
                         manifest[p].projects[loc[p].i], InDir, OutDir(p)))
       \/ /\ pc[p] = "scope"
          /\ CopyStep(p, CopyCommonRootFiles(disk,
                 [meta[p] EXCEPT !.currentScope = loc[p].currentScope],
                 InDir, OutDir(p)), "license")
       \/ /\ pc[p] = "license"
          /\ LicenseStep(p)

(***************************************************************************)
(* The TWL handler and its link rewrite.  A TSV file is a sequence of      *)
(* chunks: "TAB", "LF", "CR", the literals "rc://", "/tw/dict/bible/", "/", *)
(* "./payload/", ".md", and any other string for a run of text that holds  *)
(* no slash, tab or line break.                                            *)
(***************************************************************************)
\* Chunks that hold a slash.
SlashChunks == {"/", "rc://", "/tw/dict/bible/", "./payload/"}

\* bufio.ScanLines: the text is cut at every "\n"; a text that does not end
\* in "\n" yields its remainder as a last line; one trailing "\r" is dropped
\* from each line.
dropCR(line) ==
    IF Len(line) > 0 /\ line[Len(line)] = "CR"
    THEN SubSeq(line, 1, Len(line) - 1) ELSE line

RECURSIVE ScanLines(_)
ScanLines(data) ==
    LET lfs   == {i \in 1..Len(data) : data[i] = "LF"}
        first == CHOOSE i \in lfs : \A j \in lfs : i <= j
    IN  IF data = <<>> THEN <<>>
        ELSE IF lfs = {} THEN <<dropCR(data)>>
        ELSE <<dropCR(SubSeq(data, 1, first - 1))>>
             \o ScanLines(SubSeq(data, first + 1, Len(data)))

\* Where twLinkReplaceRegexp, \trc://[^/]+/tw/dict/bible/([^\t]+)$, matches
\* when the match starts at chunk i: the tab, "rc://", one chunk or more
\* without a slash, "/tw/dict/bible/", then one chunk or more without a tab
\* up to the end of the line.  j is the position of "/tw/dict/bible/".
MatchAt(line, i, j) ==
    /\ i + 1 <= Len(line)
    /\ line[i] = "TAB"
    /\ line[i + 1] = "rc://"
    /\ j > i + 2
    /\ j < Len(line)
    /\ line[j] = "/tw/dict/bible/"
    /\ \A k \in (i + 2)..(j - 1) : line[k] \notin SlashChunks
    /\ \A k \in (j + 1)..Len(line) : line[k] # "TAB"

\* ReplaceAllString, were the pattern to match nothing.
ReplaceAllString_keep(line) == line

\* twLinkReplaceRegexp.ReplaceAllString(line, "\t./payload/$1.md"): the
\* pattern ends at the end of the text, so the leftmost match is the only one.
ReplaceAllString(line) ==
    LET starts == {i \in 1..Len(line) : \E j \in 1..Len(line) : MatchAt(line, i, j)}
        i0 == CHOOSE i \in starts : \A k \in starts : i <= k
        j0 == CHOOSE j \in 1..Len(line) : MatchAt(line, i0, j)
    IN  IF starts = {} THEN line
        ELSE SubSeq(line, 1, i0 - 1) \o <<"TAB", "./payload/">>
             \o SubSeq(line, j0 + 1, Len(line)) \o <<".md">>

\* The lines written back, "\n" between them.
RECURSIVE JoinLines(_)
JoinLines(lines) ==
    IF lines = <<>> THEN <<>>
    ELSE IF Len(lines) = 1 THEN lines[1]
    ELSE lines[1] \o <<"LF">> \o JoinLines(Tail(lines))

\* What copyTSVWithLinkRewrite writes for a source text: every scanned line
\* rewritten, and a final "\n" when the source ends in one.
RewriteText(data) ==
    LET lines == ScanLines(data)
        out   == JoinLines([k \in 1..Len(lines) |-> ReplaceAllString(lines[k])])
    IN  IF Len(data) > 0 /\ data[Len(data)] = "LF"
        THEN out \o <<"LF">> ELSE out

\* copyTSVWithLinkRewrite, were the ingredient computed before writer.Flush():
\* the destination is created and still empty when it is read.
copyTSVWithLinkRewrite_beforeFlush(d, srcPath, outDir, ingredientKey, scope) ==
    LET dstPath == Join(outDir, ingredientKey)
        d1      == WriteFile(d, dstPath, <<>>)
        d2      == WriteFile(d, dstPath, RewriteText(d[srcPath]))
    IN  IF ~FileExists(d, srcPath)
        THEN [err |-> <<"opening">>, disk |-> d, ing |-> NoIngredient]
        ELSE [err |-> NoErr, disk |-> d2,
              ing |-> ComputeIngredientWithScope(d1, dstPath, scope)]

\* copyTSVWithLinkRewrite, were the ingredient computed from the file read
\* and not from the file written.
copyTSVWithLinkRewrite_fromSource(d, srcPath, outDir, ingredientKey, scope) ==
    LET dstPath == Join(outDir, ingredientKey)
        d2      == WriteFile(d, dstPath, RewriteText(d[srcPath]))
    IN  IF ~FileExists(d, srcPath)
        THEN [err |-> <<"opening">>, disk |-> d, ing |-> NoIngredient]
        ELSE [err |-> NoErr, disk |-> d2,
              ing |-> ComputeIngredientWithScope(d2, srcPath, scope)]

\* handler.copyTSVWithLinkRewrite.
copyTSVWithLinkRewrite(d, srcPath, outDir, ingredientKey, scope) ==
    LET dstPath == Join(outDir, ingredientKey)
        d2      == WriteFile(d, dstPath, RewriteText(d[srcPath]))
    IN  IF ~FileExists(d, srcPath)
        THEN [err |-> <<"opening">>, disk |-> d, ing |-> NoIngredient]
        ELSE [err |-> NoErr, disk |-> d2,
              ing |-> ComputeIngredientWithScope(d2, dstPath, scope)]

PayloadPrefix == <<"ingredients", "/", "payload">>

\* The payload source, were the container's <lang>_tw directory looked at
\* before the override.
twlPayload_autoFirst(d, m, l, lang, inDir, outDir, opts) ==
    LET auto       == Join(Join(inDir, <<lang, "_tw">>), <<"bible">>)
        twBibleDir == IF StatOk(d, auto) \/ opts.PayloadPath = <<>>
                      THEN auto
                      ELSE Join(opts.PayloadPath, <<"bible">>)
        hasPayload == StatOk(d, twBibleDir)
        c  == copyTreeToIngredients(d, m, twBibleDir, outDir, PayloadPrefix)
        l2 == [l EXCEPT !.hasPayload = hasPayload, !.twBibleDir = twBibleDir]
    IN  IF ~hasPayload THEN [err |-> NoErr, disk |-> d, m |-> m, loc |-> l2]
        ELSE IF c.err # NoErr
        THEN [err |-> <<"copying TW payload">> \o c.err, disk |-> c.disk,
              m |-> m, loc |-> l2]
        ELSE [err |-> NoErr, disk |-> c.disk, m |-> c.m, loc |-> l2]

\* The payload step, were the container's <lang>_tw directory taken when the
\* override has no bible/ directory.
twlPayload_fallback(d, m, l, lang, inDir, outDir, opts) ==
    LET auto       == Join(Join(inDir, <<lang, "_tw">>), <<"bible">>)
        override   == Join(opts.PayloadPath, <<"bible">>)
        twBibleDir == IF opts.PayloadPath # <<>> /\ StatOk(d, override)
                      THEN override ELSE auto
        hasPayload == StatOk(d, twBibleDir)
        c  == copyTreeToIngredients(d, m, twBibleDir, outDir, PayloadPrefix)
        l2 == [l EXCEPT !.hasPayload = hasPayload, !.twBibleDir = twBibleDir]
    IN  IF ~hasPayload THEN [err |-> NoErr, disk |-> d, m |-> m, loc |-> l2]
        ELSE IF c.err # NoErr
        THEN [err |-> <<"copying TW payload">> \o c.err, disk |-> c.disk,
              m |-> m, loc |-> l2]
        ELSE [err |-> NoErr, disk |-> c.disk, m |-> c.m, loc |-> l2]

\* The payload step, were the directory found and its tree not copied.
twlPayload_flagOnly(d, m, l, lang, inDir, outDir, opts) ==
    LET twBibleDir == IF opts.PayloadPath # <<>>
                      THEN Join(opts.PayloadPath, <<"bible">>)
                      ELSE Join(Join(inDir, <<lang, "_tw">>), <<"bible">>)
    IN  [err |-> NoErr, disk |-> d, m |-> m,
         loc |-> [l EXCEPT !.hasPayload = StatOk(d, twBibleDir),
                           !.twBibleDir = twBibleDir]]

\* twlHandler.Convert, the payload source and its copy.
twlPayload(d, m, l, lang, inDir, outDir, opts) ==
    LET twBibleDir == IF opts.PayloadPath # <<>>
                      THEN Join(opts.PayloadPath, <<"bible">>)
                      ELSE Join(Join(inDir, <<lang, "_tw">>), <<"bible">>)
        hasPayload == StatOk(d, twBibleDir)
        c  == copyTreeToIngredients(d, m, twBibleDir, outDir, PayloadPrefix)
        l2 == [l EXCEPT !.hasPayload = hasPayload, !.twBibleDir = twBibleDir]
    IN  IF ~hasPayload THEN [err |-> NoErr, disk |-> d, m |-> m, loc |-> l2]
        ELSE IF c.err # NoErr
        THEN [err |-> <<"copying TW payload">> \o c.err, disk |-> c.disk,
              m |-> m, loc |-> l2]
        ELSE [err |-> NoErr, disk |-> c.disk, m |-> c.m, loc |-> l2]

\* The copy of a TSV file, were it rewritten whether a payload was found or not.
twlCopy_alwaysRewrite(d, hasPayload, srcPath, outDir, ingredientKey, scope) ==
    copyTSVWithLinkRewrite(d, srcPath, outDir, ingredientKey, scope)

\* The copy of a TSV file, were it rewritten only when the article its links
\* name was copied with the payload.
twlCopy_ifArticleCopied(d, hasPayload, srcPath, outDir, ingredientKey, scope) ==
    IF hasPayload /\ FileExists(d, Join(outDir,
                         <<"ingredients", "/", "payload", "/", "kt", "/",
                           "god", ".md">>))
    THEN copyTSVWithLinkRewrite(d, srcPath, outDir, ingredientKey, scope)
    ELSE CopyFileWithScope(d, srcPath, outDir, ingredientKey, scope)

\* twlHandler.Convert, "if hasPayload": the file is rewritten when a payload
\* was copied and copied as it is otherwise.
twlCopy(d, hasPayload, srcPath, outDir, ingredientKey, scope) ==
    IF hasPayload
    THEN copyTSVWithLinkRewrite(d, srcPath, outDir, ingredientKey, scope)
    ELSE CopyFileWithScope(d, srcPath, outDir, ingredientKey, scope)

\* twlHandler.Convert, the body of the loop over manifest.Projects.
twlProject(d, m, l, lang, project, inDir, outDir) ==
    LET srcPath       == Join(inDir, TrimPrefix(project.path, <<"./">>))
        srcFilename   == Base(srcPath)
        destFilename  == TrimPrefix(srcFilename, <<"twl_">>)
        ingredientKey == IngredientsPrefix \o destFilename
        bookID        == ToLower(project.identifier)
        bookCode      == CodeFromProjectID(bookID)
        scope         == (bookCode :> <<>>)
        l2 == [l EXCEPT !.currentScope = (bookCode :> <<>>) @@ @]
        ln == LocalizedNameEntryWithNames(bookID, lang, project.title,
                                          NoUSFMNames)
        m2 == IF ln.key # <<>>
              THEN [m EXCEPT !.localizedNames = (ln.key :> ln.name) @@ @]
              ELSE m
        c  == twlCopy(d, l.hasPayload, srcPath, outDir, ingredientKey, scope)
    IN  IF c.err # NoErr
        THEN [err |-> <<"copying">> \o c.err, disk |-> c.disk, m |-> m2,
              loc |-> l2]
        ELSE [err |-> NoErr, disk |-> c.disk,
              m |-> [m2 EXCEPT !.ingredients = (ingredientKey :> c.ing) @@ @],
              loc |-> l2]

\* twlHandler.Convert.
twlHandler_Convert(p) ==
    /\ hnd[p].kind = "twl"
    /\ \/ HandlerBegin(p, "uWBurritos", <<"TW">>, "parascriptural",
                       "x-bcvarticles", EmptyMap, "payload")
       \/ /\ pc[p] = "payload"
          /\ LET r == twlPayload(disk, meta[p], loc[p], manifest[p].dc.lang,
                                 InDir, OutDir(p), input)
             IN  /\ disk' = r.disk
                 /\ IF r.err # NoErr
                    THEN HandlerFails(p, r.err)
                    ELSE /\ meta' = [meta EXCEPT ![p] = r.m]
                         /\ loc'  = [loc EXCEPT ![p] = r.loc]
                         /\ pc'   = [pc EXCEPT ![p] = "proj_check"]
                         /\ UNCHANGED herr
          /\ UNCHANGED <<registry, regPos, names, input, now, ctx, manifest, hnd, ret,
                         metaWrites, mkdirDone>>
       \/ LoopHeader(p, "scope")
       \/ /\ pc[p] = "proj_copy"
          /\ LoopBody(p, twlProject(disk, meta[p], loc[p], manifest[p].dc.lang,
                         manifest[p].projects[loc[p].i], InDir, OutDir(p)))
       \/ /\ pc[p] = "scope"
          /\ CopyStep(p, CopyCommonRootFiles(disk,
                 [meta[p] EXCEPT !.currentScope = loc[p].currentScope],
                 InDir, OutDir(p)), "license")
       \/ /\ pc[p] = "license"
          /\ LicenseStep(p)

(***************************************************************************)
(* The handlers without book projects: TA, OBS, TW and the OBS TSV ones.   *)
(***************************************************************************)
\* The text written when the container has no LICENSE.md.
DefaultLicense == <<"Creative Commons Attribution-ShareAlike 4.0">>

\* handler.CopyLicenseToRoot: LICENSE.md at the root of the burrito, the
\* container's own or the default text; not an ingredient.
CopyLicenseToRoot(d, inDir, outDir) ==
    LET src == Join(inDir, LicenseName)
        dst == Join(outDir, LicenseName)
    IN  IF FileExists(d, src)
        THEN [err |-> NoErr, disk |-> WriteFile(d, dst, d[src])]
        ELSE [err |-> NoErr, disk |-> WriteFile(d, dst, DefaultLicense)]

taRootFiles == << LicenseName, <<"manifest", ".yaml">>, <<"media", ".yaml">> >>

\* taHandler.Convert, the loop over taRootFiles: each one present is copied to
\* the root with CopyFile and is no ingredient.
RECURSIVE taCopyRootFiles(_, _, _, _)
taCopyRootFiles(i, d, inDir, outDir) ==
    IF i > Len(taRootFiles) THEN [err |-> NoErr, disk |-> d]
    ELSE LET name == taRootFiles[i]
             src  == Join(inDir, name)
             c    == CopyFile(d, src, Join(outDir, name))
         IN  IF ~StatOk(d, src) THEN taCopyRootFiles(i + 1, d, inDir, outDir)
             ELSE IF c.err # NoErr
             THEN [err |-> <<"copying root file">> \o c.err, disk |-> c.disk]
             ELSE taCopyRootFiles(i + 1, c.disk, inDir, outDir)

\* taHandler.Convert, the body of the loop over manifest.Projects.
taProject(d, m, l, project, inDir, outDir) ==
    LET projectDir == Join(inDir, project.identifier)
        destPrefix == IngredientsPrefix \o project.identifier
        c == copyTreeToIngredients(d, m, projectDir, outDir, destPrefix)
    IN  IF ~StatOk(d, projectDir)
        THEN [err |-> NoErr, disk |-> d, m |-> m, loc |-> l]
        ELSE IF c.err # NoErr
        THEN [err |-> <<"copying project">> \o c.err, disk |-> c.disk,
              m |-> m, loc |-> l]
        ELSE [err |-> NoErr, disk |-> c.disk, m |-> c.m, loc |-> l]

\* taHandler.Convert.
taHandler_Convert(p) ==
    /\ hnd[p].kind = "ta"
    /\ \/ HandlerBegin(p, "uWBurritos", <<"TA">>, "peripheral",
                       "x-peripheralArticles", EmptyMap, "rootfiles")
       \/ /\ pc[p] = "rootfiles"
          /\ LET c == CopyCommonRootFiles(disk, meta[p], InDir, OutDir(p))
                 r == taCopyRootFiles(1, c.disk, InDir, OutDir(p))
             IN  CopyStep(p, IF c.err # NoErr THEN c
                             ELSE [err |-> r.err, disk |-> r.disk, m |-> c.m],
                          "proj_check")
       \/ LoopHeader(p, "license")
       \/ /\ pc[p] = "proj_copy"
          /\ LoopBody(p, taProject(disk, meta[p], loc[p],
                         manifest[p].projects[loc[p].i], InDir, OutDir(p)))
       \/ /\ pc[p] = "license"
          /\ LET licSrc == Join(InDir, LicenseName)
                 c == CopyFileAndComputeIngredient(disk, licSrc, OutDir(p),
                                                   LicenseKey)
             IN  /\ IF ~StatOk(disk, licSrc)
                    THEN /\ disk' = disk
                         /\ HandlerReturns(p, meta[p])
                    ELSE /\ disk' = c.disk
                         /\ IF c.err # NoErr
                            THEN HandlerFails(p,
                                   <<"copying ingredients/LICENSE.md">> \o c.err)
                            ELSE HandlerReturns(p, [meta[p] EXCEPT !.ingredients
                                                   = (LicenseKey :> c.ing) @@ @])
                 /\ UNCHANGED <<registry, regPos, names, input, now, ctx, manifest,
                                hnd, ret, metaWrites, mkdirDone>>

ContentPrefix == <<"ingredients", "/", "content">>

\* handler.copyContentDir: the walk of copyTreeToIngredients, under
\* ingredients/content/.
copyContentDir(d, m, contentDir, outDir) ==
    copyTreeToIngredients(d, m, contentDir, outDir, ContentPrefix)

\* The name of the top-level entry of inDir a file lies in or is.
EntryName(rel) ==
    LET seps == {i \in 1..Len(rel) : rel[i] = "/"}
        first == CHOOSE i \in seps : \A j \in seps : i <= j
    IN  IF seps = {} THEN rel ELSE SubSeq(rel, 1, first - 1)

\* Chunks that start with a dot and are no extension.
DotNames == {".gitea", ".github", ".git", ".gitignore"}

\* isOBSExcludedEntry, were the YAML files of the root not excluded.
isOBSExcludedEntry_yamlKept(name, isDir) ==
    IF isDir THEN name[1] \in DotNames
    ELSE name \in {<<"README", ".md">>, LicenseName, <<".gitignore">>}

\* handler.isOBSExcludedEntry.
isOBSExcludedEntry(name, isDir) ==
    IF isDir THEN name[1] \in DotNames
    ELSE \/ HasSuffix(name, <<".yaml">>) \/ HasSuffix(name, <<".yml">>)
         \/ name \in {<<"README", ".md">>, LicenseName, <<".gitignore">>}

\* handler.copyOBSRootContent (with copyOBSSubdir): every entry of inDir that
\* is not excluded goes under ingredients/content/.
copyOBSRootContent(d, m, inDir, outDir) ==
    LET files == {f \in FilesUnder(d, inDir) :
                    LET rel == Rel(inDir, f)
                    IN  ~isOBSExcludedEntry(EntryName(rel), EntryName(rel) # rel)}
        key(f) == ContentPrefix \o <<"/">> \o Rel(inDir, f)
        keys   == {key(f) : f \in files}
        srcOf(k) == CHOOSE f \in files : key(f) = k
        d2 == [q \in DOMAIN d \cup {Join(outDir, k) : k \in keys} |->
                 IF \E k \in keys : q = Join(outDir, k)
                 THEN d[srcOf(CHOOSE k \in keys : q = Join(outDir, k))]
                 ELSE d[q]]
        ing2 == [k \in DOMAIN m.ingredients \cup keys |->
                   IF k \in keys THEN ComputeIngredient(d2, Join(outDir, k))
                   ELSE m.ingredients[k]]
    IN  [err |-> NoErr, disk |-> d2, m |-> [m EXCEPT !.ingredients = ing2]]

\* obsHandler.Convert, the content step.
obsContent(d, m, mf, inDir, outDir) ==
    LET p0 == IF Len(mf.projects) > 0
              THEN TrimPrefix(mf.projects[1].path, <<"./">>) ELSE <<>>
        contentPath == IF p0 # <<>> THEN p0 ELSE <<"content">>
    IN  IF contentPath = <<".">>
        THEN copyOBSRootContent(d, m, inDir, outDir)
        ELSE copyContentDir(d, m, Join(inDir, contentPath), outDir)

\* obsHandler.Convert.
obsHandler_Convert(p) ==
    /\ hnd[p].kind = "obs"
    /\ \/ HandlerBegin(p, "BurritoTruck", <<"OBS">>, "gloss", "textStories",
                       (<<"GEN">> :> <<>>), "rootfiles")
       \/ /\ pc[p] = "rootfiles"
          /\ LET c == CopyCommonRootFiles(disk, meta[p], InDir, OutDir(p))
                 r == CopyLicenseToRoot(c.disk, InDir, OutDir(p))
             IN  CopyStep(p, IF c.err # NoErr THEN c
                             ELSE [err |-> r.err, disk |-> r.disk, m |-> c.m],
                          "content")
       \/ /\ pc[p] = "content"
          /\ CopyStep(p, obsContent(disk, meta[p], manifest[p], InDir,
                                    OutDir(p)), "license")
       \/ /\ pc[p] = "license"
          /\ LicenseStep(p)

\* twHandler.Convert.
twHandler_Convert(p) ==
    /\ hnd[p].kind = "tw"
    /\ \/ HandlerBegin(p, "uWBurritos", <<"TW">>, "peripheral",
                       "x-peripheralArticles", EmptyMap, "rootfiles")
       \/ /\ pc[p] = "rootfiles"
          /\ LET c == CopyCommonRootFiles(disk, meta[p], InDir, OutDir(p))
                 r == CopyLicenseToRoot(c.disk, InDir, OutDir(p))
             IN  CopyStep(p, IF c.err # NoErr THEN c
                             ELSE [err |-> r.err, disk |-> r.disk, m |-> c.m],
                          "content")
       \/ /\ pc[p] = "content"
          /\ LET c == copyTreeToIngredients(disk, meta[p],
                        Join(InDir, <<"bible">>), OutDir(p), <<"ingredients">>)
             IN  CopyStep(p, [c EXCEPT !.err = IF @ # NoErr
                                THEN <<"copying bible directory">> \o @ ELSE @],
                          "license")
       \/ /\ pc[p] = "license"
          /\ LicenseStep(p)

\* obsTSVHandler.Convert, from the localized name to CopyCommonRootFiles.
obsTSVCopy(d, m, h, mf, inDir, outDir) ==
    LET project       == mf.projects[1]
        tsvPath       == Join(inDir, TrimPrefix(project.path, <<"./">>))
        tsvFilename   == Base(tsvPath)
        sbFilename    == TrimPrefix(tsvFilename, h.tsvPrefix)
        ingredientKey == IngredientsPrefix \o sbFilename
        obsName == [Abbr |-> ("en" :> "OBS"), Short |-> ("en" :> "OBS"),
                    Long |-> ("en" :> "OBS")]
        m2 == [m EXCEPT !.localizedNames = (<<"book-", "obs">> :> obsName)]
        c  == CopyFileAndComputeIngredient(d, tsvPath, outDir, ingredientKey)
    IN  IF Len(mf.projects) = 0
        THEN [err |-> <<"no projects found in manifest for", h.subject>>,
              disk |-> d, m |-> m2]
        ELSE IF c.err # NoErr
        THEN [err |-> <<"copying TSV file">> \o c.err, disk |-> c.disk,
              m |-> m2]
        ELSE CopyCommonRootFiles(c.disk,
               [m2 EXCEPT !.ingredients = (ingredientKey :> c.ing) @@ @],
               inDir, outDir)

\* obsTSVHandler.Convert.
obsTSVHandler_Convert(p) ==
    /\ hnd[p].kind = "obstsv"
    /\ \/ HandlerBegin(p, "BurritoTruck", hnd[p].abbreviation, "peripheral",
                       hnd[p].flavorName, EmptyMap, "tsv")
       \/ /\ pc[p] = "tsv"
          /\ CopyStep(p, obsTSVCopy(disk, meta[p], hnd[p], manifest[p], InDir,
                                    OutDir(p)), "license")
       \/ /\ pc[p] = "license"
          /\ LicenseStep(p)

(***************************************************************************)
(* The inputs: a Resource Container on disk and the options of the call.   *)
(***************************************************************************)
Seqs(S, n) == UNION {[1..k -> S] : k \in 0..n}

\* The bytes of a source file: every file has contents of its own.
Content(path) == <<"data:">> \o path

FilesAt(paths) == [f \in paths |-> Content(f)]

RootChoices ==
    { {},
      {LicenseName},
      {LicenseName, <<"README", ".md">>},
      {LicenseName, <<"README", ".md">>, <<".gitignore">>,
       <<".gitea", "/", "workflows", ".yaml">>,
       <<".github", "/", "ci", ".yaml">>} }

NoInput == [set |-> FALSE, yaml |-> "", manifest |-> NoManifest,
            PayloadPath |-> <<>>, outDirOK |-> TRUE]

\* A container with the given manifest and files (paths relative to inDir).
Bundle(yaml, subject, identifier, projects, rels, payloadPath, extra) ==
    [yaml |-> yaml,
     manifest |-> [dc |-> [subject |-> subject, identifier |-> identifier,
                           title |-> "Title", lang |-> "en"],
                   projects |-> projects],
     PayloadPath |-> payloadPath,
     files |-> extra @@ FilesAt({Join(InDir, r) : r \in rels}
                                \cup (IF yaml = "missing" THEN {}
                                      ELSE {ManifestPath(InDir)}))]

ProjectRel(project) == TrimPrefix(project.path, <<"./">>)

\* The files a manifest's projects name, all of them or all but one.
PresentChoices(projects) ==
    LET all == {ProjectRel(projects[i]) : i \in 1..Len(projects)}
    IN  {all} \cup {all \ {f} : f \in all}

BibleSubjects == {"Aligned Bible", "Bible", "Hebrew Old Testament",
                  "Greek New Testament"}

BibleProjects ==
    { [identifier |-> <<"gen">>, title |-> "Genesis",
       path |-> <<"./", "01", "-", "GEN", ".usfm">>],
      [identifier |-> <<"GEN">>, title |-> "",
       path |-> <<"./", "GEN", ".usfm">>],
      [identifier |-> <<"frt">>, title |-> "Front",
       path |-> <<"./", "A0", "-", "FRT", ".usfm">>],
      [identifier |-> <<"exo">>, title |-> "Exodus",
       path |-> <<"./", "02", "-", "EXO", ".txt">>] }

BibleBundles ==
    UNION { { Bundle("ok", s, <<"ult">>, ps, pres \cup roots, <<>>, EmptyMap) :
                s \in BibleSubjects, pres \in PresentChoices(ps),
                roots \in RootChoices } :
            ps \in Seqs(BibleProjects, MaxProjects) }

\* The projects of a TSV container whose files start with prefix.
TSVProjects(prefix) ==
    { [identifier |-> <<"gen">>, title |-> "Genesis",
       path |-> <<"./", prefix, "GEN", ".tsv">>],
      [identifier |-> <<"exo">>, title |-> "",
       path |-> <<"./", prefix, "EXO", ".tsv">>] }

TSVBundles(subject, identifier, prefix) ==
    UNION { { Bundle("ok", subject, identifier, ps, pres \cup roots, <<>>,
                     EmptyMap) :
                pres \in PresentChoices(ps), roots \in RootChoices } :
            ps \in Seqs(TSVProjects(prefix), MaxProjects) }

TNBundles == TSVBundles("TSV Translation Notes", <<"tn">>, "tn_")
TQBundles == TSVBundles("TSV Translation Questions", <<"tq">>, "tq_")

\* A link to a Translation Words article, and text around it.
Token == <<"rc://", "*", "/tw/dict/bible/", "kt", "/", "god">>

PlainTSV == <<"ref", "TAB", "id", "TAB">> \o Token \o <<"LF">>

\* Where the articles lie: in the container, outside of it, in both or nowhere.
PayloadChoices ==
    { {},
      {<<"IN", "/", "en", "_tw", "/", "bible", "/", "kt", "/", "god", ".md">>},
      {<<"EXT", "/", "bible", "/", "kt", "/", "god", ".md">>,
       <<"EXT", "/", "bible", "/", "names", "/", "adam", ".md">>},
      {<<"IN", "/", "en", "_tw", "/", "bible", "/", "kt", "/", "god", ".md">>,
       <<"EXT", "/", "bible", "/", "kt", "/", "god", ".md">>} }

\* TWL containers whose TSV files all hold the text tsv.
TWLBundlesWith(tsv, roots) ==
    UNION { { Bundle("ok", "TSV Translation Words Links", <<"twl">>, ps,
                     pres \cup roots, pp,
                     FilesAt(pay) @@
                     [f \in {Join(InDir, r) : r \in pres} |-> tsv]) :
                pres \in PresentChoices(ps), pp \in {<<>>, ExtDir},
                pay \in PayloadChoices } :
            ps \in Seqs(TSVProjects("twl_"), MaxProjects) }

TWLBundles ==
    UNION {TWLBundlesWith(PlainTSV, roots) :
             roots \in {{}, {LicenseName, <<"README", ".md">>}}}

TAProjects ==
    { [identifier |-> <<"intro">>, title |-> "Introduction",
       path |-> <<"./", "intro">>],
      [identifier |-> <<"process">>, title |-> "Process",
       path |-> <<"./", "process">>] }

TAFiles(projects) ==
    {ProjectRel(projects[i]) \o <<"/", "a", "/", "01", ".md">> :
       i \in 1..Len(projects)}

TABundles ==
    UNION { { Bundle("ok", "Translation Academy", <<"ta">>, ps,
                     pres \cup roots \cup media, <<>>, EmptyMap) :
                pres \in {TAFiles(ps)} \cup {TAFiles(ps) \ {f} : f \in TAFiles(ps)},
                roots \in RootChoices,
                media \in {{}, {<<"media", ".yaml">>}} } :
            ps \in Seqs(TAProjects, MaxProjects) }

OBSProjectChoices ==
    { <<>>,
      <<[identifier |-> <<"obs">>, title |-> "OBS", path |-> <<"./", "content">>]>>,
      <<[identifier |-> <<"obs">>, title |-> "OBS", path |-> <<"./">>]>>,
      <<[identifier |-> <<"obs">>, title |-> "OBS", path |-> <<".">>]>> }

OBSFileChoices ==
    { {},
      {<<"content", "/", "01", ".md">>,
       <<"content", "/", "front", "/", "intro", ".md">>},
      {<<"01", ".md">>, <<"front", "/", "intro", ".md">>,
       <<"front", "/", "meta", ".yaml">>, <<"media", ".yaml">>,
       <<".git", "/", "config">>} }

OBSBundles ==
    { Bundle("ok", "Open Bible Stories", <<"obs">>, ps, fs \cup roots, <<>>,
             EmptyMap) :
        ps \in OBSProjectChoices, fs \in OBSFileChoices, roots \in RootChoices }

TWFileChoices ==
    { {},
      {<<"bible", "/", "kt", "/", "god", ".md">>},
      {<<"bible", "/", "kt", "/", "god", ".md">>,
       <<"bible", "/", "names", "/", "adam", ".md">>} }

TWBundles ==
    { Bundle("ok", "Translation Words", <<"tw">>,
             <<[identifier |-> <<"bible">>, title |-> "",
                path |-> <<"./", "bible">>]>>,
             fs \cup roots, <<>>, EmptyMap) :
        fs \in TWFileChoices, roots \in RootChoices }

OBSTSVProjectChoices(prefix) ==
    { <<>>,
      <<[identifier |-> <<"obs">>, title |-> "",
         path |-> <<"./", prefix, "OBS", ".tsv">>]>> }

OBSTSVBundles ==
    UNION { { Bundle("ok", InitHandlers[k].subject, <<"obs-x">>, ps,
                     fs \cup roots, <<>>, EmptyMap) :
                ps \in OBSTSVProjectChoices(InitHandlers[k].tsvPrefix[1]),
                fs \in {{}, {<<InitHandlers[k].tsvPrefix[1], "OBS", ".tsv">>}},
                roots \in RootChoices } :
            k \in {i \in 1..Len(InitHandlers) :
                     InitHandlers[i].kind = "obstsv"} }

\* Containers Convert turns down before it reaches a handler.
BrokenBundles ==
    { Bundle(y, s, <<"ult">>, <<>>, {LicenseName}, <<>>, EmptyMap) :
        y \in {"missing", "malformed"}, s \in {"Bible"} }
    \cup
    { Bundle("ok", s, <<"ult">>, <<>>, {LicenseName}, <<>>, EmptyMap) :
        s \in {"Unknown Subject Type", ""} }

(***************************************************************************)
(* The program: start-up, the inputs, the call and its cancellation.       *)
(***************************************************************************)
NoRet == [done |-> FALSE, err |-> NoErr, subject |-> "",
          identifier |-> <<>>, ingredients |-> 0]

Init ==
    /\ registry = EmptyMap
    /\ regPos = 0
    /\ input = NoInput
    /\ disk = EmptyMap
    /\ now = 0
    /\ pc = [p \in Procs |-> "idle"]
    /\ ctx = [p \in Procs |-> FALSE]
    /\ manifest = [p \in Procs |-> NoManifest]
    /\ hnd = [p \in Procs |-> NoHandler]
    /\ meta = [p \in Procs |-> NilMetadata]
    /\ loc = [p \in Procs |-> NoLoc]
    /\ herr = [p \in Procs |-> NoErr]
    /\ ret = [p \in Procs |-> NoRet]
    /\ metaWrites = [p \in Procs |-> <<>>]
    /\ mkdirDone = [p \in Procs |-> FALSE]
    /\ names = [called |-> FALSE, id |-> <<>>, lang |-> "", projectTitle |-> "",
                usfmNames |-> NoUSFMNames, key |-> <<>>,
                name |-> NoLocalizedName]

\* subjects.init(): one handler.Register call after the other.
Register ==
    /\ regPos < Len(InitHandlers)
    /\ registry' = RegisterInto(registry, InitHandlers[regPos + 1])
    /\ regPos' = regPos + 1
    /\ UNCHANGED <<names, input, disk, now, pc, ctx, manifest, hnd, meta, loc, herr,
                   ret, metaWrites, mkdirDone>>

\* The caller lays out inDir and picks the options before the first call.
PrepareWith(S) ==
    /\ regPos = Len(InitHandlers)
    /\ ~input.set
    /\ \E b \in S, ok \in BOOLEAN :
          /\ input' = [set |-> TRUE, yaml |-> b.yaml, manifest |-> b.manifest,
                       PayloadPath |-> b.PayloadPath, outDirOK |-> ok]
          /\ disk' = b.files
    /\ UNCHANGED <<registry, regPos, names, now, pc, ctx, manifest, hnd, meta, loc,
                   herr, ret, metaWrites, mkdirDone>>

\* rc2sb.Convert is called with a context that may be cancelled already.
Call(p) ==
    /\ input.set
    /\ pc[p] = "idle"
    /\ \E c \in BOOLEAN : ctx' = [ctx EXCEPT ![p] = c]
    /\ pc' = [pc EXCEPT ![p] = "entry"]
    /\ UNCHANGED <<registry, regPos, names, input, disk, now, manifest, hnd, meta,
                   loc, herr, ret, metaWrites, mkdirDone>>

\* The caller cancels the context while Convert runs.
Cancel(p) ==
    /\ pc[p] \notin {"idle", "done"}
    /\ ~ctx[p]
    /\ ctx' = [ctx EXCEPT ![p] = TRUE]
    /\ UNCHANGED <<registry, regPos, names, input, disk, now, pc, manifest, hnd, meta,
                   loc, herr, ret, metaWrites, mkdirDone>>

\* Convert returns Result{}, err.
ConvertFails(p, e) ==
    /\ ret' = [ret EXCEPT ![p] = [NoRet EXCEPT !.done = TRUE, !.err = e]]
    /\ pc' = [pc EXCEPT ![p] = "done"]

\* rc2sb.Convert up to the handler call: the context check, LoadManifest,
\* handler.Lookup and os.MkdirAll(outDir).
Convert_entry(p) ==
    /\ pc[p] = "entry"
    /\ LET lm == LoadManifest(disk, input, InDir)
       IN  \E order \in IterationOrders(registry) :
           LET lk == Lookup(registry, lm.m.dc.subject, order)
           IN  IF ctxErr(ctx[p]) # NoErr
               THEN /\ ConvertFails(p, <<"context error">> \o ctxErr(ctx[p]))
                    /\ UNCHANGED <<registry, manifest, hnd, mkdirDone>>
               ELSE IF lm.err # NoErr
               THEN /\ ConvertFails(p, lm.err)
                    /\ UNCHANGED <<registry, manifest, hnd, mkdirDone>>
               ELSE IF lk.err # NoErr
               THEN /\ ConvertFails(p, lk.err)
                    /\ registry' = RegistryAfterLookup(registry,
                                                       lm.m.dc.subject)
                    /\ manifest' = [manifest EXCEPT ![p] = lm.m]
                    /\ UNCHANGED <<hnd, mkdirDone>>
               ELSE IF ~input.outDirOK
               THEN /\ ConvertFails(p, <<"creating output directory">>)
                    /\ registry' = RegistryAfterLookup(registry,
                                                       lm.m.dc.subject)
                    /\ manifest' = [manifest EXCEPT ![p] = lm.m]
                    /\ hnd' = [hnd EXCEPT ![p] = lk.h]
                    /\ UNCHANGED mkdirDone
               ELSE /\ registry' = RegistryAfterLookup(registry,
                                                       lm.m.dc.subject)
                    /\ manifest' = [manifest EXCEPT ![p] = lm.m]
                    /\ hnd' = [hnd EXCEPT ![p] = lk.h]
                    /\ mkdirDone' = [mkdirDone EXCEPT ![p] = TRUE]
                    /\ pc' = [pc EXCEPT ![p] = "h_begin"]
                    /\ UNCHANGED ret
    /\ UNCHANGED <<regPos, names, input, disk, now, ctx, meta, loc, herr, metaWrites>>

\* Convert's last part, were metadata.json written before the handler's error
\* is looked at.
Convert_exit_writeFirst(p) ==
    /\ pc[p] = "h_ret"
    /\ disk' = WriteToFile(disk, meta[p], OutDir(p))
    /\ metaWrites' = [metaWrites EXCEPT ![p] = Append(@, meta[p])]
    /\ IF herr[p] # NoErr
       THEN ConvertFails(p, <<"converting", manifest[p].dc.subject>> \o herr[p])
       ELSE /\ ret' = [ret EXCEPT ![p] =
                 [done |-> TRUE, err |-> NoErr,
                  subject |-> manifest[p].dc.subject,
                  identifier |-> manifest[p].dc.identifier,
                  ingredients |-> Cardinality(DOMAIN meta[p].ingredients)]]
            /\ pc' = [pc EXCEPT ![p] = "done"]
    /\ UNCHANGED <<registry, regPos, names, input, now, ctx, manifest, hnd, meta, loc,
                   herr, mkdirDone>>

\* Convert's last part, were the metadata.json of an earlier run removed when
\* the handler fails.
Convert_exit_cleanup(p) ==
    /\ pc[p] = "h_ret"
    /\ IF herr[p] # NoErr
       THEN /\ ConvertFails(p, <<"converting", manifest[p].dc.subject>>
                               \o herr[p])
            /\ disk' = [f \in DOMAIN disk \ {MetadataPath(OutDir(p))} |->
                          disk[f]]
            /\ UNCHANGED metaWrites
       ELSE /\ disk' = WriteToFile(disk, meta[p], OutDir(p))
            /\ metaWrites' = [metaWrites EXCEPT ![p] = Append(@, meta[p])]
            /\ ret' = [ret EXCEPT ![p] =
                 [done |-> TRUE, err |-> NoErr,
                  subject |-> manifest[p].dc.subject,
                  identifier |-> manifest[p].dc.identifier,
                  ingredients |-> Cardinality(DOMAIN meta[p].ingredients)]]
            /\ pc' = [pc EXCEPT ![p] = "done"]
    /\ UNCHANGED <<registry, regPos, names, input, now, ctx, manifest, hnd, meta, loc,
                   herr>>
    /\ UNCHANGED mkdirDone

\* rc2sb.Convert after the handler call: the error is wrapped, or
\* metadata.json is written and the Result returned.
Convert_exit(p) ==
    /\ pc[p] = "h_ret"
    /\ IF herr[p] # NoErr
       THEN /\ ConvertFails(p, <<"converting", manifest[p].dc.subject>>
                               \o herr[p])
            /\ UNCHANGED <<disk, metaWrites>>
       ELSE /\ disk' = WriteToFile(disk, meta[p], OutDir(p))
            /\ metaWrites' = [metaWrites EXCEPT ![p] = Append(@, meta[p])]
            /\ ret' = [ret EXCEPT ![p] =
                 [done |-> TRUE, err |-> NoErr,
                  subject |-> manifest[p].dc.subject,
                  identifier |-> manifest[p].dc.identifier,
                  ingredients |-> Cardinality(DOMAIN meta[p].ingredients)]]
            /\ pc' = [pc EXCEPT ![p] = "done"]
    /\ UNCHANGED <<registry, regPos, names, input, now, ctx, manifest, hnd, meta, loc,
                   herr>>
    /\ UNCHANGED mkdirDone

\* rc2sb.Convert.
Convert(p) == Convert_entry(p) \/ Convert_exit(p)

AllBundles ==
    BibleBundles \cup TNBundles \cup TQBundles \cup TWLBundles \cup TABundles
    \cup OBSBundles \cup TWBundles \cup OBSTSVBundles \cup BrokenBundles

Prepare == PrepareWith(AllBundles)

Next ==
    \/ Register
    \/ Prepare
    \/ Call(1)
    \/ Cancel(1)
    \/ Convert(1)
    \/ bibleHandler_Convert(1)
    \/ tnHandler_Convert(1)
    \/ tqHandler_Convert(1)
    \/ twlHandler_Convert(1)
    \/ taHandler_Convert(1)
    \/ obsHandler_Convert(1)
    \/ twHandler_Convert(1)
    \/ obsTSVHandler_Convert(1)

Spec == Init /\ [][Next]_vars

(***************************************************************************)
(* The TWL handler over TSV files of every shape: lines with and without   *)
(* links, links in the last column and elsewhere, LF, CRLF and CRCRLF.     *)
(***************************************************************************)
TWLLines ==
    { <<>>,
      <<"ref", "TAB", "note">>,
      <<"ref", "TAB">> \o Token,
      <<"ref", "TAB">> \o Token \o <<"CR">>,
      <<"ref", "TAB", "note", "CR", "CR">>,
      <<"CR">>,
      Token \o <<"TAB", "note">>,
      <<"ref", "TAB", "see">> \o Token,
      <<"ref", "TAB", "rc://", "/tw/dict/bible/", "kt", "/", "god">>,
      <<"ref", "TAB", "./payload/", "kt", "/", "god", ".md">> }

\* The texts of at most MaxLines lines, with and without a final line break.
TWLTexts ==
    UNION { {JoinLines(ls), JoinLines(ls) \o <<"LF">>} :
            ls \in Seqs(TWLLines, MaxLines) }

TWLProject == [identifier |-> <<"gen">>, title |-> "Genesis",
               path |-> <<"./", "twl_", "GEN", ".tsv">>]

\* What selects the payload: (opts.PayloadPath, the article files on disk).
TWLPayloadCases ==
    { <<<<>>, {}>>,
      <<<<>>, {<<"IN", "/", "en", "_tw", "/", "bible", "/", "kt", "/", "god", ".md">>}>>,
      <<ExtDir, {<<"EXT", "/", "bible", "/", "kt", "/", "god", ".md">>}>>,
      <<ExtDir, {<<"EXT", "/", "bible", "/", "names", "/", "adam", ".md">>}>>,
      <<ExtDir, {<<"IN", "/", "en", "_tw", "/", "bible", "/", "kt", "/", "god", ".md">>}>> }

TWLTextBundles ==
    { Bundle("ok", "TSV Translation Words Links", <<"twl">>, <<TWLProject>>,
             {ProjectRel(TWLProject), LicenseName}, pc0[1],
             FilesAt(pc0[2]) @@
             (Join(InDir, ProjectRel(TWLProject)) :> tsv)) :
        tsv \in TWLTexts, pc0 \in TWLPayloadCases }

PrepareTWL == PrepareWith(TWLTextBundles)

NextTWL ==
    \/ Register
    \/ PrepareTWL
    \/ Call(1)
    \/ Convert(1)
    \/ twlHandler_Convert(1)

SpecTWL == Init /\ [][NextTWL]_vars

(***************************************************************************)
(* Two calls of Convert at once, on the same container, each with its own  *)
(* output directory; the wall clock moves while they run.                  *)
(***************************************************************************)
Tick ==
    /\ input.set
    /\ now < MaxClock
    /\ now' = now + 1
    /\ UNCHANGED <<registry, regPos, names, input, disk, pc, ctx, manifest, hnd, meta,
                   loc, herr, ret, metaWrites, mkdirDone>>

ConcBundles ==
    { Bundle("ok", "Bible", <<"ult">>,
             <<[identifier |-> <<"gen">>, title |-> "Genesis",
                path |-> <<"./", "01", "-", "GEN", ".usfm">>]>>,
             {<<"01", "-", "GEN", ".usfm">>, LicenseName, <<"README", ".md">>},
             <<>>, EmptyMap),
      Bundle("ok", "TSV Translation Notes", <<"tn">>,
             <<[identifier |-> <<"gen">>, title |-> "Genesis",
                path |-> <<"./", "tn_", "GEN", ".tsv">>]>>,
             {<<"tn_", "GEN", ".tsv">>, LicenseName}, <<>>, EmptyMap),
      Bundle("ok", "TSV Translation Questions", <<"tq">>,
             <<[identifier |-> <<"gen">>, title |-> "Genesis",
                path |-> <<"./", "tq_", "GEN", ".tsv">>]>>,
             {<<"tq_", "GEN", ".tsv">>, LicenseName}, <<>>, EmptyMap),
      Bundle("ok", "TSV Translation Words Links", <<"twl">>, <<TWLProject>>,
             {ProjectRel(TWLProject), LicenseName}, ExtDir,
             FilesAt({<<"EXT", "/", "bible", "/", "kt", "/", "god", ".md">>})
             @@ (Join(InDir, ProjectRel(TWLProject)) :> PlainTSV)),
      Bundle("ok", "Translation Academy", <<"ta">>,
             <<[identifier |-> <<"intro">>, title |-> "Introduction",
                path |-> <<"./", "intro">>]>>,
             {<<"intro", "/", "a", "/", "01", ".md">>, LicenseName},
             <<>>, EmptyMap),
      Bundle("ok", "Open Bible Stories", <<"obs">>, <<>>,
             {<<"content", "/", "01", ".md">>, LicenseName}, <<>>, EmptyMap),
      Bundle("ok", "Translation Words", <<"tw">>, <<>>,
             {<<"bible", "/", "kt", "/", "god", ".md">>, LicenseName},
             <<>>, EmptyMap),
      Bundle("ok", "TSV OBS Study Notes", <<"obs-sn">>,
             <<[identifier |-> <<"obs">>, title |-> "",
                path |-> <<"./", "sn_", "OBS", ".tsv">>]>>,
             {<<"sn_", "OBS", ".tsv">>, LicenseName}, <<>>, EmptyMap),
      Bundle("ok", "Unknown Subject Type", <<"x">>, <<>>, {LicenseName},
             <<>>, EmptyMap) }

PrepareConc == PrepareWith(ConcBundles)

NextConc ==
    \/ Register
    \/ PrepareConc
    \/ Tick
    \/ \E p \in Procs :
          \/ Call(p)
          \/ Convert(p)
          \/ bibleHandler_Convert(p)
          \/ tnHandler_Convert(p)
          \/ tqHandler_Convert(p)
          \/ twlHandler_Convert(p)
          \/ taHandler_Convert(p)
          \/ obsHandler_Convert(p)
          \/ twHandler_Convert(p)
          \/ obsTSVHandler_Convert(p)

SpecConc == Init /\ [][NextConc]_vars

(***************************************************************************)
(* The name resolution on its own: books.LocalizedNameEntryWithNames is    *)
(* exported, and Convert never hands it markup names (it passes no         *)
(* USFMPath on to the handlers), so its callers are taken as they come.    *)
(***************************************************************************)
\* One call of books.LocalizedNameEntryWithNames(id, lang, projectTitle,
\* usfmNames), with its result.
ResolveName ==
    /\ \E id \in {<<"gen">>, <<"GEN">>, <<"exo">>, <<"xyz">>},
          lang \in {"en", "hi", "fr"},
          projectTitle \in {"", "Title"},
          usfmNames \in {NoUSFMNames} \cup
                        [isNil : {FALSE}, Long : {"", "toc1"},
                         Short : {"", "toc2"}, Abbr : {"", "toc3"}] :
          LET r == LocalizedNameEntryWithNames(id, lang, projectTitle,
                                               usfmNames)
          IN  names' = [called |-> TRUE, id |-> id, lang |-> lang,
                        projectTitle |-> projectTitle,
                        usfmNames |-> usfmNames, key |-> r.key,
                        name |-> r.name]
    /\ UNCHANGED <<registry, regPos, input, disk, now, pc, ctx, manifest, hnd,
                   meta, loc, herr, ret, metaWrites, mkdirDone>>

NextNames ==
    \/ Register
    \/ ResolveName

SpecNames == Init /\ [][NextNames]_vars

(***************************************************************************)
(* Convert into an outDir that may hold the metadata.json of an earlier    *)
(* conversion: os.MkdirAll accepts a directory that is already there.      *)
(***************************************************************************)
\* The container is written; outDir is new, or cannot be created, or is there
\* already with a metadata.json in it.
PrepareRerun ==
    /\ regPos = Len(InitHandlers)
    /\ ~input.set
    /\ \E b \in BibleBundles \cup BrokenBundles, earlier \in BOOLEAN,
          ok \in BOOLEAN :
          /\ earlier => ok
          /\ input' = [set |-> TRUE, yaml |-> b.yaml, manifest |-> b.manifest,
                       PayloadPath |-> b.PayloadPath, outDirOK |-> ok]
          /\ disk' = IF earlier
                     THEN (MetadataPath(OutDir(1)) :>
                             <<"{earlier metadata}", "LF">>) @@ b.files
                     ELSE b.files
    /\ UNCHANGED <<registry, regPos, names, now, pc, ctx, manifest, hnd, meta, loc,
                   herr, ret, metaWrites, mkdirDone>>

NextRerun ==
    \/ Register
    \/ PrepareRerun
    \/ Call(1)
    \/ Cancel(1)
    \/ Convert(1)
    \/ bibleHandler_Convert(1)

SpecRerun == Init /\ [][NextRerun]_vars

(***************************************************************************)
(* The properties.                                                         *)
(***************************************************************************)
\* Convert has returned to the caller of process p, without or with an error.
Succeeded(p) == ret[p].done /\ ret[p].err = NoErr
Failed(p)    == ret[p].done /\ ret[p].err # NoErr

\* The record the last write of metadata.json held.
Written(p) == metaWrites[p][Len(metaWrites[p])]

\* C1: after a successful Convert every key of the ingredients map names a
\* file that exists under outDir, and the size and the MD5 recorded for the key
\* are those of that file.
C1_IngredientsMatchFiles ==
    \A p \in Procs :
        Succeeded(p) =>
            /\ Len(metaWrites[p]) > 0
            /\ \A k \in DOMAIN Written(p).ingredients :
                  LET f == Join(OutDir(p), k)
                  IN  /\ FileExists(disk, f)
                      /\ Written(p).ingredients[k].size = ByteLen(disk[f])
                      /\ Written(p).ingredients[k].md5 = MD5(disk[f])

\* A TWL conversion with a payload has succeeded: copied articles, a rewritten
\* TSV file and the license are ingredients.
C1_Witness ==
    /\ Succeeded(1)
    /\ manifest[1].dc.subject = "TSV Translation Words Links"
    /\ Cardinality(DOMAIN Written(1).ingredients) >= 3
    /\ \E k \in DOMAIN Written(1).ingredients : HasPrefix(k, PayloadPrefix)
    /\ \E k \in DOMAIN Written(1).ingredients :
          /\ HasSuffix(k, <<".tsv">>)
          /\ Count(disk[Join(OutDir(1), k)], "./payload/") > 0

\* The stages of Convert that can fail, read off the inputs and the state.
ManifestUnusable ==
    ~FileExists(disk, ManifestPath(InDir)) \/ input.yaml = "malformed"

SubjectUnregistered == input.manifest.dc.subject \notin DOMAIN registry

StageFailed(p) ==
    \/ ManifestUnusable
    \/ SubjectUnregistered
    \/ ~input.outDirOK
    \/ herr[p] # NoErr

\* C2: metadata.json is written at most once per call, and only after the
\* handler has returned without an error; when loading the manifest, the
\* lookup, the creation of outDir or the handler fails, Convert returns an
\* error and metadata.json is not written.
C2_MetadataWrittenOnceAfterSuccess ==
    \A p \in Procs :
        /\ Len(metaWrites[p]) <= 1
        /\ Len(metaWrites[p]) = 1 =>
              /\ pc[p] = "done"
              /\ herr[p] = NoErr
              /\ hnd[p] # NoHandler
              /\ Written(p) = meta[p]
              /\ meta[p] # NilMetadata
        /\ (ret[p].done /\ StageFailed(p)) =>
              /\ ret[p].err # NoErr
              /\ metaWrites[p] = <<>>
              /\ ~FileExists(disk, MetadataPath(OutDir(p)))

\* A handler failed after it had written files: Convert returned its error.
C2_Witness ==
    /\ Failed(1)
    /\ herr[1] # NoErr
    /\ herr[1] # Canceled
    /\ FilesUnder(disk, OutDir(1)) # {}

\* C3: a call with a context that is cancelled already returns an error and
\* writes no metadata.json: the first step of Convert ends the call, nothing
\* lies in outDir, and a call that has returned does nothing more.
C3_CancelledAtCall ==
    [][\A p \in Procs :
         /\ (pc[p] = "entry" /\ ctx[p] /\ pc'[p] # "entry") =>
               /\ pc'[p] = "done"
               /\ Failed(p)'
               /\ metaWrites'[p] = <<>>
               /\ ~mkdirDone'[p]
               /\ FilesUnder(disk', OutDir(p)) = {}
         /\ pc[p] = "done" =>
               /\ pc'[p] = "done"
               /\ ret'[p] = ret[p]
               /\ metaWrites'[p] = metaWrites[p]]_vars

\* Convert was called with a cancelled context on a container it could have
\* converted, and has returned.
C3_Witness ==
    /\ ret[1].done
    /\ ret[1].err = <<"context error", "context canceled">>
    /\ ~ManifestUnusable
    /\ ~SubjectUnregistered
    /\ input.outDirOK
    /\ Len(input.manifest.projects) > 0

\* The handlers that loop over the manifest's projects.
MultiProject(p) == hnd[p].kind \in {"bible", "tn", "tq", "twl", "ta"}

\* The error Convert returns for a handler that returned the cancellation.
CancelledResult(p) ==
    <<"converting", manifest[p].dc.subject>> \o Canceled

\* C4, as the claim has it: in the handlers that loop over projects, once the
\* context is cancelled no further project iteration begins and metadata.json
\* is not written.
C4_AsClaimed ==
    [][\A p \in Procs :
         (MultiProject(p) /\ ctx[p]) =>
            /\ ~(pc[p] = "proj_check" /\ pc'[p] = "proj_copy")
            /\ metaWrites'[p] = metaWrites[p]]_vars

\* C4, amended: the context is looked at before each project iteration; once
\* that check finds it cancelled, no further project is copied, the handler
\* returns the cancellation error and Convert passes it on, the files written
\* so far stay as they are, and metadata.json is never written.
C4_CancelFoundBeforeIteration ==
    [][\A p \in Procs :
         /\ (/\ MultiProject(p) /\ pc[p] = "proj_check" /\ ctx[p]
             /\ loc[p].i <= Len(manifest[p].projects)
             /\ pc'[p] # pc[p]) =>
               /\ pc'[p] = "h_ret"
               /\ herr'[p] = Canceled
               /\ disk' = disk
               /\ metaWrites'[p] = <<>>
         /\ (MultiProject(p) /\ pc[p] = "h_ret" /\ herr[p] = Canceled) =>
               /\ pc'[p] \in {"h_ret", "done"}
               /\ disk' = disk
               /\ metaWrites'[p] = <<>>
               /\ pc'[p] = "done" => ret'[p].err = CancelledResult(p)
         /\ (pc[p] = "done" /\ ret[p].err = CancelledResult(p)) =>
               /\ pc'[p] = "done"
               /\ disk' = disk
               /\ metaWrites'[p] = <<>>]_vars

\* The check before the second project found the context cancelled: the first
\* project's file lies in outDir, and Convert has returned the cancellation.
C4_Witness ==
    /\ ret[1].done
    /\ hnd[1].kind = "bible"
    /\ ret[1].err = CancelledResult(1)
    /\ \E f \in FilesUnder(disk, OutDir(1)) :
          HasPrefix(f, Join(OutDir(1), <<"ingredients">>))
    /\ metaWrites[1] = <<>>

\* The fourteen subjects, in byte order.
SortedSubjects ==
    << "Aligned Bible", "Bible", "Greek New Testament", "Hebrew Old Testament",
       "Open Bible Stories", "TSV OBS Study Notes", "TSV OBS Study Questions",
       "TSV OBS Translation Notes", "TSV OBS Translation Questions",
       "TSV Translation Notes", "TSV Translation Questions",
       "TSV Translation Words Links", "Translation Academy",
       "Translation Words" >>

\* The lookup was reached: the context was live at the entry check and the
\* manifest could be read.
LookupReached(p) ==
    /\ ret[p].done
    /\ ~ManifestUnusable
    /\ ret[p].err # <<"context error">> \o Canceled

\* C5: for a subject that has no registered handler, Convert returns an error
\* that names the subject and lists every supported subject in sorted order;
\* no handler runs, outDir is not created and no file is written.
C5_UnsupportedSubject ==
    \A p \in Procs :
        (LookupReached(p) /\ SubjectUnregistered) =>
            /\ ret[p].err = <<"unsupported subject", input.manifest.dc.subject,
                              "supported subjects:">> \o SortedSubjects
            /\ hnd[p] = NoHandler
            /\ meta[p] = NilMetadata
            /\ ~mkdirDone[p]
            /\ FilesUnder(disk, OutDir(p)) = {}
            /\ metaWrites[p] = <<>>

\* Convert has turned down the subject "Unknown Subject Type".
C5_Witness ==
    /\ LookupReached(1)
    /\ input.manifest.dc.subject = "Unknown Subject Type"
    /\ ret[1].err[1] = "unsupported subject"

\* C6: when manifest.yaml is missing or cannot be parsed, Convert returns an
\* error before any output: outDir is not created, nothing is copied and no
\* metadata.json is written.
C6_ManifestErrorBeforeOutput ==
    \A p \in Procs :
        (ret[p].done /\ ManifestUnusable) =>
            /\ ret[p].err # NoErr
            /\ hnd[p] = NoHandler
            /\ ~mkdirDone[p]
            /\ FilesUnder(disk, OutDir(p)) = {}
            /\ metaWrites[p] = <<>>

\* Convert has returned the parse error of a malformed manifest.yaml.
C6_Witness ==
    /\ ret[1].done
    /\ input.yaml = "malformed"
    /\ ret[1].err = <<"parsing manifest.yaml">>

\* C7: after start-up, Lookup succeeds for each of the fourteen supported
\* subjects and the handler it returns reports that subject; so does the
\* handler Convert has looked up for a manifest.
C7_LookupReturnsSubject ==
    /\ regPos = Len(InitHandlers) =>
          \A i \in 1..Len(SortedSubjects) :
             LET r == Lookup(registry, SortedSubjects[i],
                             RegistrationOrder(registry))
             IN  r.err = NoErr /\ Subject(r.h) = SortedSubjects[i]
    /\ \A p \in Procs :
          hnd[p] # NoHandler => Subject(hnd[p]) = manifest[p].dc.subject

\* Convert has looked up the handler of one of the aliased Bible subjects.
C7_Witness ==
    /\ pc[1] = "h_begin"
    /\ manifest[1].dc.subject = "Greek New Testament"
    /\ Subject(hnd[1]) = "Greek New Testament"
    /\ Cardinality(DOMAIN registry) = 14

\* The files of a process's outDir, by their paths below it.
OutTree(p) ==
    [r \in {Rel(OutDir(p), f) : f \in FilesUnder(disk, OutDir(p))} |->
       disk[Join(OutDir(p), r)]]

\* Everything on disk that lies outside of every outDir.
InTree ==
    [f \in {g \in DOMAIN disk :
              \A p \in Procs : ~HasPrefix(g, OutDir(p))} |-> disk[f]]

\* What belongs to one call of Convert.
OwnState(p) ==
    <<pc[p], ctx[p], manifest[p], hnd[p], meta[p], loc[p], herr[p], ret[p],
      metaWrites[p], mkdirDone[p], OutTree(p)>>

\* A metadata record without the moment it was made.
Undated(m) == [m EXCEPT !.dateCreated = 0]

\* Two calls ended alike: the same result, the same metadata.json apart from
\* its date, the same files.
SameOutcome(p, q) ==
    /\ ret[p] = ret[q]
    /\ Len(metaWrites[p]) = Len(metaWrites[q])
    /\ \A i \in 1..Len(metaWrites[p]) :
          Undated(metaWrites[p][i]) = Undated(metaWrites[q][i])
    /\ OutTree(p) = OutTree(q)

\* C8: the registry is written during start-up only and no call of Convert
\* changes it; a step of one call changes nothing that belongs to another
\* call and nothing of the input; and two calls running at once on the same
\* container with different output directories end as each would alone, with
\* the same result, metadata and files.
C8_ConcurrentCallsIndependent ==
    [][/\ regPos = Len(InitHandlers) => registry' = registry
       /\ \A p \in Procs : \A q \in Procs \ {p} :
             pc'[p] # pc[p] => /\ OwnState(q)' = OwnState(q)
                               /\ InTree' = InTree
       /\ (pc'[1] = "done" /\ pc'[2] = "done" /\ ctx'[1] = ctx'[2]) =>
             SameOutcome(1, 2)']_vars

\* Two calls on the same container have both succeeded, at different moments.
C8_Witness ==
    /\ Succeeded(1)
    /\ Succeeded(2)
    /\ Written(1).dateCreated # Written(2).dateCreated
    /\ Cardinality(DOMAIN Written(1).ingredients) >= 2

TWLSubject == "TSV Translation Words Links"

\* The directory the articles are taken from, and whether there is one.
PayloadDir ==
    IF input.PayloadPath # <<>>
    THEN Join(input.PayloadPath, <<"bible">>)
    ELSE Join(Join(InDir, <<input.manifest.dc.lang, "_tw">>), <<"bible">>)

PayloadSelected == DirExists(disk, PayloadDir)

\* The source and the output of a project's TSV file.
TWLSource(project) == Join(InDir, ProjectRel(project))

TWLOutput(p, project) ==
    Join(OutDir(p),
         IngredientsPrefix \o TrimPrefix(Base(ProjectRel(project)), <<"twl_">>))

\* A chunk of plain text.
TextChunk(c) == c \notin SlashChunks \cup {"TAB", "LF", "CR"}

\* A reference token rc://<opaque>/tw/dict/bible/<category>/<article> starts
\* at chunk i of the text.
IsTokenAt(t, i) ==
    /\ t[i] = "rc://"
    /\ i + 5 <= Len(t)
    /\ TextChunk(t[i + 1])
    /\ t[i + 2] = "/tw/dict/bible/"
    /\ TextChunk(t[i + 3])
    /\ t[i + 4] = "/"
    /\ TextChunk(t[i + 5])

TokenCount(t) == Cardinality({i \in 1..Len(t) : IsTokenAt(t, i)})

\* The token at chunk i is the whole last column of its row: a tab before it
\* and the end of the line after the article.
LastColumnToken(t, i) ==
    /\ IsTokenAt(t, i)
    /\ i > 1
    /\ t[i - 1] = "TAB"
    /\ \/ i + 5 = Len(t)
       \/ t[i + 6] = "LF"
       \/ t[i + 6] = "CR" /\ (i + 6 = Len(t) \/ t[i + 7] = "LF")

\* Every rc:// of the text is a last-column token, and the text has no
\* ./payload/ of its own.
TokensInLastColumn(t) ==
    /\ \A i \in 1..Len(t) : t[i] = "rc://" => LastColumnToken(t, i)
    /\ Count(t, "./payload/") = 0

\* C9, as the claim has it: with a payload selected, the output of a TWL file
\* with N reference tokens holds no rc:// and exactly N times ./payload/.
C9_AsClaimed ==
    \A p \in Procs :
        (Succeeded(p) /\ input.manifest.dc.subject = TWLSubject
           /\ PayloadSelected) =>
            \A i \in 1..Len(input.manifest.projects) :
               LET src == disk[TWLSource(input.manifest.projects[i])]
                   out == disk[TWLOutput(p, input.manifest.projects[i])]
               IN  /\ Count(out, "rc://") = 0
                   /\ Count(out, "./payload/") = TokenCount(src)

\* C9, amended: with a payload selected, the output of a TWL file whose N
\* reference tokens each are the last column of their row (after a tab), and
\* which holds no other rc:// and no ./payload/ of its own, holds no rc:// and
\* exactly N times ./payload/.
C9_LastColumnTokensRewritten ==
    \A p \in Procs :
        (Succeeded(p) /\ input.manifest.dc.subject = TWLSubject
           /\ PayloadSelected) =>
            \A i \in 1..Len(input.manifest.projects) :
               LET src == disk[TWLSource(input.manifest.projects[i])]
                   out == disk[TWLOutput(p, input.manifest.projects[i])]
               IN  TokensInLastColumn(src) =>
                      /\ Count(out, "rc://") = 0
                      /\ Count(out, "./payload/") = TokenCount(src)

\* A file of two rows, each with a token in its last column, one of them ending
\* in CRLF, has been rewritten.
C9_Witness ==
    /\ Succeeded(1)
    /\ input.manifest.dc.subject = TWLSubject
    /\ PayloadSelected
    /\ LET src == disk[TWLSource(input.manifest.projects[1])]
       IN  /\ TokensInLastColumn(src)
           /\ TokenCount(src) = 2
           /\ Count(src, "CR") = 1

\* C10: when no payload directory is found, every TWL file of the output is
\* byte for byte its source, and neither the ingredients nor outDir hold
\* anything under ingredients/payload/.
C10_NoPayloadCopiesAsIs ==
    \A p \in Procs :
        (Succeeded(p) /\ input.manifest.dc.subject = TWLSubject
           /\ ~PayloadSelected) =>
            /\ \A i \in 1..Len(input.manifest.projects) :
                  disk[TWLOutput(p, input.manifest.projects[i])]
                    = disk[TWLSource(input.manifest.projects[i])]
            /\ \A k \in DOMAIN Written(p).ingredients :
                  ~HasPrefix(k, PayloadPrefix)
            /\ FilesUnder(disk, Join(OutDir(p), PayloadPrefix)) = {}

\* No override and no <lang>_tw directory: a file with a last-column token has
\* been copied, the token still in it.
C10_Witness ==
    /\ Succeeded(1)
    /\ input.manifest.dc.subject = TWLSubject
    /\ input.PayloadPath = <<>>
    /\ ~PayloadSelected
    /\ LET out == disk[TWLOutput(1, input.manifest.projects[1])]
       IN  \E i \in 1..Len(out) : LastColumnToken(out, i)

\* C11, as the claim has it: the link rewrite is idempotent; rewriting the
\* file a conversion with a payload has written gives that file again, byte
\* for byte.
C11_RewriteIdempotent ==
    \A p \in Procs :
        (Succeeded(p) /\ input.manifest.dc.subject = TWLSubject
           /\ PayloadSelected) =>
            \A i \in 1..Len(input.manifest.projects) :
               LET out == disk[TWLOutput(p, input.manifest.projects[i])]
               IN  RewriteText(out) = out

\* The text ends with a line feed.
EndsWithLF(t) == Len(t) > 0 /\ t[Len(t)] = "LF"

\* C12, as the claim has it: the file the link rewrite writes ends with a line
\* terminator exactly when its source does, the empty file and files of line
\* terminators only included.
C12_TrailingTerminatorKept ==
    \A p \in Procs :
        (Succeeded(p) /\ input.manifest.dc.subject = TWLSubject
           /\ PayloadSelected) =>
            \A i \in 1..Len(input.manifest.projects) :
               LET src == disk[TWLSource(input.manifest.projects[i])]
                   out == disk[TWLOutput(p, input.manifest.projects[i])]
               IN  EndsWithLF(out) <=> EndsWithLF(src)

\* The files below a directory, by their paths relative to it.
TreeOf(dir) ==
    [r \in {Rel(dir, f) : f \in FilesUnder(disk, dir)} |-> disk[Join(dir, r)]]

\* The <lang>_tw/bible directory of the container.
AutoDetectedDir ==
    Join(Join(InDir, <<input.manifest.dc.lang, "_tw">>), <<"bible">>)

\* C13: the payload of a TWL conversion comes from the first source that
\* applies: the override path when the caller gave one, else the <lang>_tw
\* directory of the container; the articles under ingredients/payload are those
\* of that source's bible directory and the TSV files are rewritten.  With
\* neither, there is no payload and the TSV files are copied as they are.
C13_PayloadSourceSelection ==
    \A p \in Procs :
        (Succeeded(p) /\ input.manifest.dc.subject = TWLSubject) =>
            LET chosen == IF input.PayloadPath # <<>>
                          THEN Join(input.PayloadPath, <<"bible">>)
                          ELSE AutoDetectedDir
                found  == DirExists(disk, chosen)
            IN  /\ TreeOf(Join(OutDir(p), PayloadPrefix)) = TreeOf(chosen)
                /\ \A i \in 1..Len(input.manifest.projects) :
                      LET src == disk[TWLSource(input.manifest.projects[i])]
                          out == disk[TWLOutput(p, input.manifest.projects[i])]
                      IN  out = IF found THEN RewriteText(src) ELSE src

\* The caller gave an override and the container has a <lang>_tw directory as
\* well: the articles of the override were copied, and a file was rewritten.
C13_Witness ==
    /\ Succeeded(1)
    /\ input.manifest.dc.subject = TWLSubject
    /\ input.PayloadPath = ExtDir
    /\ DirExists(disk, AutoDetectedDir)
    /\ DirExists(disk, Join(ExtDir, <<"bible">>))
    /\ TreeOf(AutoDetectedDir) # TreeOf(Join(ExtDir, <<"bible">>))
    /\ Len(input.manifest.projects) > 0
    /\ Count(disk[TWLOutput(1, input.manifest.projects[1])], "./payload/") > 0

\* C14, as the claim has it: after a successful conversion every key of the
\* current-scope map is in the scope of an ingredient of the same record.
C14_ScopeKeysCarried ==
    \A p \in Procs :
        Succeeded(p) =>
            \A code \in DOMAIN Written(p).currentScope :
               \E k \in DOMAIN Written(p).ingredients :
                  code \in DOMAIN Written(p).ingredients[k].scope

\* The localized-names keys of the canonical table's units.
CanonicalNameKeys == {<<"book-", b.ID>> : b \in AllBooks}

\* C15, as the claim has it: for an identifier that is not in the canonical
\* table the name resolution returns the empty key and the empty record, and
\* no conversion puts an entry for such an identifier into localized-names.
C15_NoNameForUnknownUnit ==
    /\ \A i \in 1..Len(input.manifest.projects) :
          LET project == input.manifest.projects[i]
              id      == ToLower(project.identifier)
              empty   == [key |-> <<>>, name |-> NoLocalizedName]
          IN  ~IsBookID(id) =>
                 /\ LocalizedNameEntry(id) = empty
                 /\ LocalizedNameEntryWithNames(id, input.manifest.dc.lang,
                                                project.title, NoUSFMNames)
                      = empty
    /\ \A p \in Procs :
          DOMAIN meta[p].localizedNames \subseteq CanonicalNameKeys

\* The call of the name resolution was for a unit of the canonical table.
ResolvedKnown == names.called /\ IsBookID(names.id)

\* The value a name slot shows for the target language: the target's own
\* bucket where there is one, the English bucket otherwise.
Shown(slot) ==
    IF names.lang \in DOMAIN slot THEN slot[names.lang] ELSE slot["en"]

\* The markup gave a value for a slot.
FromMarkup(value) == ~names.usfmNames.isNil /\ value # ""

EnglishBucketKept(slot, canonical, markup) ==
    /\ "en" \in DOMAIN slot
    /\ IF names.lang = "en"
       THEN /\ DOMAIN slot = {"en"}
            /\ slot["en"] = IF FromMarkup(markup) THEN markup ELSE canonical
       ELSE /\ DOMAIN slot \subseteq {"en", names.lang}
            /\ slot["en"] = canonical

\* C17: for a target language other than English every slot has an English
\* bucket with the canonical name, whatever the markup and the title are, and
\* those go to the target's own bucket only; for English there is the one
\* bucket, in which a markup value stands in place of the canonical name.
C17_EnglishBucket ==
    ResolvedKnown =>
        LET b == ByID(names.id)
            u == names.usfmNames
        IN  /\ EnglishBucketKept(names.name.Long, b.Long, u.Long)
            /\ EnglishBucketKept(names.name.Short, b.Short, u.Short)
            /\ EnglishBucketKept(names.name.Abbr, b.Abbr, u.Abbr)

\* Names for French were resolved with a title and a full markup: the markup
\* values are in the French buckets, the canonical names in the English ones.
C17_Witness ==
    /\ ResolvedKnown
    /\ names.lang = "fr"
    /\ names.projectTitle = "Title"
    /\ names.name.Long = ("fr" :> "toc1") @@ ("en" :> ByID(names.id).Long)
    /\ names.name.Short = ("fr" :> "toc2") @@ ("en" :> ByID(names.id).Short)
    /\ names.name.Abbr = ("fr" :> "toc3") @@ ("en" :> ByID(names.id).Abbr)

\* The container of the call has a LICENSE.md of its own.
HasOwnLicense == FileExists(disk, Join(InDir, LicenseName))

\* The text the output's license files have to hold.
LicenseText ==
    IF HasOwnLicense THEN disk[Join(InDir, LicenseName)] ELSE DefaultLicense

\* C18: a container without LICENSE.md is never refused for want of it, and
\* every conversion that succeeds has the ingredient ingredients/LICENSE.md
\* and a LICENSE.md at the root of the output, both holding the container's
\* own license text when it has one and the fixed default text otherwise.
C18_MissingLicenseDefaults ==
    /\ (ret[1].done /\ ~HasOwnLicense) =>
           ~HasPrefix(herr[1], <<"copying LICENSE.md">>)
    /\ Succeeded(1) =>
           /\ LicenseKey \in DOMAIN Written(1).ingredients
           /\ FileExists(disk, Join(OutDir(1), LicenseKey))
           /\ disk[Join(OutDir(1), LicenseKey)] = LicenseText
           /\ FileExists(disk, Join(OutDir(1), LicenseName))
           /\ disk[Join(OutDir(1), LicenseName)] = LicenseText

\* The auxiliary files of the container, by their paths below inDir:
\* README.md, .gitignore and whatever lies under .gitea and .github.
AuxiliaryFiles ==
    {<<"README", ".md">>, <<".gitignore">>}
    \cup {r \in {Rel(InDir, f) : f \in FilesUnder(disk, InDir)} :
            HasPrefix(r, <<".gitea", "/">>) \/ HasPrefix(r, <<".github", "/">>)}

\* C19: after a successful conversion every auxiliary root-level file the
\* container has lies under the same name, with the same bytes, at the root of
\* the output, and none of them is a key of the ingredients map.
C19_RootFilesAreNoIngredients ==
    Succeeded(1) =>
        \A r \in AuxiliaryFiles :
            /\ FileExists(disk, Join(InDir, r)) =>
                   /\ FileExists(disk, Join(OutDir(1), r))
                   /\ disk[Join(OutDir(1), r)] = disk[Join(InDir, r)]
            /\ r \notin DOMAIN Written(1).ingredients

\* The file name of a project's path, and whether it starts with a token of
\* digits and a dash.
ProjectFile(project) == Base(ProjectRel(project))
NumericTokens == {"01", "02"}
HasNumericDashPrefix(f) == Len(f) >= 3 /\ f[1] \in NumericTokens /\ f[2] = "-"
AfterDash(f) == SubSeq(f, 3, Len(f))

\* A Bible conversion has succeeded; its projects with a numeric-dash prefix.
BibleDone == Succeeded(1) /\ hnd[1].kind = "bible"
PrefixedProjects ==
    {i \in 1..Len(manifest[1].projects) :
       HasNumericDashPrefix(ProjectFile(manifest[1].projects[i]))}

\* The current-scope map of the written record has the canonical code of the
\* project's unit.
UnitInCurrentScope(project) ==
    IsBookID(ToLower(project.identifier)) =>
        CodeFromProjectID(ToLower(project.identifier))
            \in DOMAIN Written(1).currentScope

\* C20, as the claim has it: the key of a project NN-CODE.ext is ingredients/
\* followed by all that follows the dash, extension included, and the unit's
\* code is in current-scope.
C20_AsClaimed ==
    BibleDone =>
        \A i \in PrefixedProjects :
            LET project == manifest[1].projects[i]
            IN  /\ (IngredientsPrefix \o AfterDash(ProjectFile(project)))
                       \in DOMAIN Written(1).ingredients
                /\ UnitInCurrentScope(project)

\* C20: the key of a project NN-CODE.ext is ingredients/CODE.usfm, the name
\* after the dash with its extension replaced by the fixed one, and the
\* unit's code is in current-scope and in the scope of that ingredient.
C20_PrefixStrippedKey ==
    BibleDone =>
        \A i \in PrefixedProjects :
            LET project == manifest[1].projects[i]
                f       == ProjectFile(project)
                key     == IngredientsPrefix
                           \o TrimSuffix(AfterDash(f), Ext(f)) \o <<".usfm">>
            IN  /\ key \in DOMAIN Written(1).ingredients
                /\ UnitInCurrentScope(project)
                /\ IsBookID(ToLower(project.identifier)) =>
                       CodeFromProjectID(ToLower(project.identifier))
                           \in DOMAIN Written(1).ingredients[key].scope

\* A Bible conversion of 01-GEN.usfm and 02-EXO.txt has succeeded: the keys are
\* ingredients/GEN.usfm and ingredients/EXO.usfm, there is no key with the
\* source's own extension, and GEN and EXO are in current-scope.
C20_Witness ==
    /\ BibleDone
    /\ {ProjectFile(manifest[1].projects[i]) : i \in PrefixedProjects}
         = {<<"01", "-", "GEN", ".usfm">>, <<"02", "-", "EXO", ".txt">>}
    /\ <<"ingredients", "/", "GEN", ".usfm">> \in DOMAIN Written(1).ingredients
    /\ <<"ingredients", "/", "EXO", ".usfm">> \in DOMAIN Written(1).ingredients
    /\ <<"ingredients", "/", "EXO", ".txt">> \notin DOMAIN Written(1).ingredients
    /\ {<<"GEN">>, <<"EXO">>} \subseteq DOMAIN Written(1).currentScope

\* The handlers that loop over the projects of the manifest.
MultiProjectKinds == {"bible", "tn", "tq", "twl", "ta"}

\* The source of a project, as its handler looks for it, is on disk.
ProjectPresent(project) ==
    IF hnd[1].kind = "ta"
    THEN StatOk(disk, Join(InDir, project.identifier))
    ELSE StatOk(disk, Join(InDir, ProjectRel(project)))

\* The unit codes of the projects that are on disk.
PresentCodes ==
    {CodeFromProjectID(ToLower(manifest[1].projects[i].identifier)) :
       i \in {j \in 1..Len(manifest[1].projects) :
                ProjectPresent(manifest[1].projects[j])}}

ProjectsDecide ==
    /\ ret[1].done
    /\ mkdirDone[1]
    /\ hnd[1].kind \in MultiProjectKinds
    /\ ~ctx[1]
    /\ HasOwnLicense

MissingProjects ==
    {i \in 1..Len(manifest[1].projects) :
       ~ProjectPresent(manifest[1].projects[i])}

C22_IngredientsCreatedOnce ==
    [][\A k \in DOMAIN meta[1].ingredients \cap DOMAIN meta'[1].ingredients :
          /\ meta'[1].ingredients[k] = meta[1].ingredients[k]
          /\ (/\ FileExists(disk, Join(OutDir(1), k))
              /\ FileExists(disk', Join(OutDir(1), k))) =>
                 disk'[Join(OutDir(1), k)] = disk[Join(OutDir(1), k)]]_vars

MediaName == <<"media", ".yaml">>
ManifestName == <<"manifest", ".yaml">>

\* A Translation Academy or Open Bible Stories conversion of a container that
\* has LICENSE.md, manifest.yaml and media.yaml has succeeded.
MetadataFilesCase ==
    /\ Succeeded(1)
    /\ hnd[1].kind \in {"ta", "obs"}
    /\ HasOwnLicense
    /\ FileExists(disk, Join(InDir, ManifestName))
    /\ FileExists(disk, Join(InDir, MediaName))

\* C23: such a conversion has the container's LICENSE.md at the output root
\* and the ingredient ingredients/LICENSE.md, and neither manifest.yaml nor
\* media.yaml at the output root.
C23_ManifestAndMediaNotCopied ==
    MetadataFilesCase =>
        /\ FileExists(disk, Join(OutDir(1), LicenseName))
        /\ disk[Join(OutDir(1), LicenseName)] = disk[Join(InDir, LicenseName)]
        /\ LicenseKey \in DOMAIN Written(1).ingredients
        /\ ~FileExists(disk, Join(OutDir(1), ManifestName))
        /\ ~FileExists(disk, Join(OutDir(1), MediaName))

\* An Open Bible Stories conversion whose project path is "." has succeeded.
OBSRootDone ==
    /\ Succeeded(1)
    /\ hnd[1].kind = "obs"
    /\ Len(manifest[1].projects) > 0
    /\ manifest[1].projects[1].path = <<".">>

\* The files of the container, by their paths below inDir.
InputFiles == {Rel(InDir, f) : f \in FilesUnder(disk, InDir)}

\* A file of the container that is, or lies in, an excluded root-level entry:
\* a directory whose name starts with a dot, a file ending in .yaml or .yml,
\* README.md, LICENSE.md or .gitignore.
InExcludedEntry(rel) ==
    IF \E i \in 1..Len(rel) : rel[i] = "/"
    THEN rel[1] \in DotNames
    ELSE \/ rel[Len(rel)] \in {".yaml", ".yml"}
         \/ rel \in {<<"README", ".md">>, <<"LICENSE", ".md">>, <<".gitignore">>}

ContentKeys ==
    {k \in DOMAIN Written(1).ingredients :
       HasPrefix(k, ContentPrefix \o <<"/">>)}

\* C24: with the project path "." the keys under ingredients/content/ are
\* exactly the files of the container that lie in no excluded root-level
\* entry, each under its own relative path and with the bytes of its source.
C24_RootContentRelocated ==
    OBSRootDone =>
        /\ ContentKeys = {ContentPrefix \o <<"/">> \o rel :
                            rel \in {r \in InputFiles : ~InExcludedEntry(r)}}
        /\ \A rel \in InputFiles :
              ~InExcludedEntry(rel) =>
                  disk[Join(OutDir(1), ContentPrefix \o <<"/">> \o rel)]
                      = disk[Join(InDir, rel)]

\* A root-level container with stories, a subdirectory, YAML files, README.md,
\* LICENSE.md, .gitignore and dot-directories was converted: the story, the
\* subdirectory's files (its YAML file too) are content, the others are not.
C24_Witness ==
    /\ OBSRootDone
    /\ {<<"media", ".yaml">>, <<"manifest", ".yaml">>, <<"README", ".md">>,
        <<"LICENSE", ".md">>, <<".gitignore">>, <<".git", "/", "config">>,
        <<".github", "/", "ci", ".yaml">>} \subseteq InputFiles
    /\ ContentKeys = {ContentPrefix \o <<"/">> \o rel :
                        rel \in {<<"01", ".md">>,
                                 <<"front", "/", "intro", ".md">>,
                                 <<"front", "/", "meta", ".yaml">>}}

\* The keys a step has given a record: new ones, and old ones with a new one.
Recorded(m, m2) ==
    {k \in DOMAIN m2.ingredients :
       k \notin DOMAIN m.ingredients \/ m2.ingredients[k] # m.ingredients[k]}

\* C25: in the state a step leaves, every record the step created has the
\* checksum and the size of the bytes its output file holds in that state,
\* and the step that rewrites a Translation Words Links file records the
\* checksum of the rewritten text of the source.
C25_IngredientFromWrittenBytes ==
    [][\A k \in Recorded(meta[1], meta'[1]) :
          LET f == Join(OutDir(1), k)
          IN  /\ FileExists(disk', f)
              /\ meta'[1].ingredients[k].md5 = MD5(disk'[f])
              /\ meta'[1].ingredients[k].size = ByteLen(disk'[f])
              /\ (/\ hnd[1].kind = "twl"
                  /\ loc[1].hasPayload
                  /\ pc[1] = "proj_copy") =>
                     meta'[1].ingredients[k].md5 =
                         MD5(RewriteText(
                               disk[TWLSource(manifest[1].projects[loc[1].i])]))
      ]_vars

\* A Translation Words Links conversion with a payload has succeeded: the
\* record of GEN.tsv has the checksum of the rewritten text, which is not the
\* checksum of the source.
C25_Witness ==
    /\ Succeeded(1)
    /\ hnd[1].kind = "twl"
    /\ PayloadSelected
    /\ \E i \in 1..Len(manifest[1].projects) :
          LET project == manifest[1].projects[i]
              k == IngredientsPrefix
                   \o TrimPrefix(Base(ProjectRel(project)), <<"twl_">>)
          IN  /\ k \in DOMAIN Written(1).ingredients
              /\ Written(1).ingredients[k].md5
                   = MD5(RewriteText(disk[TWLSource(project)]))
              /\ Written(1).ingredients[k].md5 # MD5(disk[TWLSource(project)])

\* The record m has, for every file of the selected payload directory, the
\* key ingredients/payload/<relative path>, and the output file has its bytes.
PayloadCopied(m) ==
    \A f \in FilesUnder(disk, PayloadDir) :
        LET k == PayloadPrefix \o <<"/">> \o Rel(PayloadDir, f)
        IN  /\ k \in DOMAIN m.ingredients
            /\ FileExists(disk, Join(OutDir(1), k))
            /\ disk[Join(OutDir(1), k)] = disk[f]
            /\ m.ingredients[k].md5 = MD5(disk[f])

\* The Translation Words Links handler is at work on a container for which a
\* payload directory was selected.
TWLWithPayload == hnd[1].kind = "twl" /\ mkdirDone[1] /\ PayloadSelected

\* C26: with a payload selected, the whole tree is copied and recorded by the
\* time the loop over the projects starts: nothing is recorded before the
\* payload step, everything of the tree is recorded in every state of the
\* loop and after it, and in the metadata of a successful conversion.
C26_PayloadCopiedBeforeProjects ==
    TWLWithPayload =>
        /\ pc[1] = "payload" => DOMAIN meta[1].ingredients = {}
        /\ pc[1] \in {"proj_check", "proj_copy", "scope", "license"} =>
               PayloadCopied(meta[1])
        /\ Succeeded(1) => PayloadCopied(Written(1))

\* The loop is about to copy the first project; the two articles of the
\* external payload are recorded and no TSV file is.
C26_Witness ==
    /\ TWLWithPayload
    /\ pc[1] = "proj_copy"
    /\ loc[1].i = 1
    /\ PayloadDir = Join(ExtDir, <<"bible">>)
    /\ DOMAIN meta[1].ingredients =
         {PayloadPrefix \o <<"/", "kt", "/", "god", ".md">>,
          PayloadPrefix \o <<"/", "names", "/", "adam", ".md">>}

\* The lines of a text, each with the LF that ends it.
RECURSIVE LinesWithTerminators(_)
LinesWithTerminators(t) ==
    IF t = <<>> THEN <<>>
    ELSE LET lfs == {i \in 1..Len(t) : t[i] = "LF"}
             first == CHOOSE i \in lfs : \A j \in lfs : i <= j
         IN  IF lfs = {} THEN <<t>>
             ELSE <<SubSeq(t, 1, first)>>
                  \o LinesWithTerminators(SubSeq(t, first + 1, Len(t)))

\* C27: after a conversion with a payload the output of a project has as many
\* lines as its source, and every line of the source that holds no rc:// link
\* is in its place in the output with the same bytes, terminator included.
C27_PlainLinesUnchanged ==
    (Succeeded(1) /\ input.manifest.dc.subject = TWLSubject
       /\ PayloadSelected) =>
        \A n \in 1..Len(input.manifest.projects) :
            LET src == LinesWithTerminators(
                           disk[TWLSource(input.manifest.projects[n])])
                out == LinesWithTerminators(
                           disk[TWLOutput(1, input.manifest.projects[n])])
            IN  /\ Len(out) = Len(src)
                /\ \A i \in 1..Len(src) :
                      Count(src[i], "rc://") = 0 => out[i] = src[i]

\* The caller gave a payload override that has no bible/ directory.
OverrideWithoutBible ==
    /\ input.manifest.dc.subject = TWLSubject
    /\ input.PayloadPath # <<>>
    /\ ~DirExists(disk, Join(input.PayloadPath, <<"bible">>))

\* C28: with such an override the conversion does not turn to the container's
\* <lang>_tw directory: it fails for no reason of the payload, and when it has
\* succeeded nothing lies or is recorded under ingredients/payload and every
\* project's output has the bytes of its source, links included.
C28_NoFallbackToAutoDetect ==
    OverrideWithoutBible =>
        /\ (ret[1].done /\ mkdirDone[1] /\ ~ctx[1] /\ HasOwnLicense
              /\ \A n \in 1..Len(input.manifest.projects) :
                    FileExists(disk, TWLSource(input.manifest.projects[n])))
               => Succeeded(1)
        /\ Succeeded(1) =>
               /\ \A k \in DOMAIN Written(1).ingredients :
                     ~HasPrefix(k, PayloadPrefix)
               /\ FilesUnder(disk, Join(OutDir(1), PayloadPrefix)) = {}
               /\ \A n \in 1..Len(input.manifest.projects) :
                     disk[TWLOutput(1, input.manifest.projects[n])]
                       = disk[TWLSource(input.manifest.projects[n])]

\* The override has no bible/ directory, the container has en_tw/bible with an
\* article, and the conversion has succeeded with the link still in GEN.tsv.
C28_Witness ==
    /\ OverrideWithoutBible
    /\ Succeeded(1)
    /\ DirExists(disk, AutoDetectedDir)
    /\ Len(input.manifest.projects) > 0
    /\ Count(disk[TWLOutput(1, input.manifest.projects[1])], "rc://") > 0
    /\ Count(disk[TWLOutput(1, input.manifest.projects[1])], "./payload/") = 0

\* What lies at outDir/metadata.json: its bytes, or nothing.
MetadataFile(d) ==
    IF FileExists(d, MetadataPath(OutDir(1)))
    THEN <<"bytes">> \o d[MetadataPath(OutDir(1))] ELSE <<"absent">>

\* C29: once the container is set up, the only step that creates, changes or
\* removes outDir/metadata.json is the one that returns from Convert without
\* an error; a call that fails or is cancelled leaves what was there.
C29_FailureLeavesMetadataFile ==
    [][(input.set /\ MetadataFile(disk') # MetadataFile(disk)) =>
          (ret'[1].done /\ ret'[1].err = NoErr)]_vars

\* A Bible conversion into an outDir with an earlier metadata.json has failed
\* after it relocated a file: the file is there and metadata.json is the
\* earlier one.
C29_Witness ==
    /\ Failed(1)
    /\ metaWrites[1] = <<>>
    /\ MetadataFile(disk) = <<"bytes", "{earlier metadata}", "LF">>
    /\ FilesUnder(disk, Join(OutDir(1), <<"ingredients">>)) # {}

\* The key of the article the links of the model's texts name.
ArticleKey == PayloadPrefix \o <<"/", "kt", "/", "god", ".md">>

\* C30: with a payload selected the output of a project is the rewritten text
\* of its source whatever the payload holds; when the article is not among
\* the ingredients the links in the last column are rewritten all the same.
C30_RewriteIgnoresPayloadContent ==
    (Succeeded(1) /\ input.manifest.dc.subject = TWLSubject
       /\ PayloadSelected) =>
        \A n \in 1..Len(input.manifest.projects) :
            LET src == disk[TWLSource(input.manifest.projects[n])]
                out == disk[TWLOutput(1, input.manifest.projects[n])]
            IN  /\ out = RewriteText(src)
                /\ (ArticleKey \notin DOMAIN Written(1).ingredients
                      /\ TokensInLastColumn(src)) =>
                       /\ Count(out, "rc://") = 0
                       /\ Count(out, "./payload/") = TokenCount(src)

\* The payload has another article only; the conversion has succeeded and the
\* output names ./payload/kt/god.md, for which there is no ingredient and no
\* file.
C30_Witness ==
    /\ Succeeded(1)
    /\ input.manifest.dc.subject = TWLSubject
    /\ PayloadSelected
    /\ ArticleKey \notin DOMAIN Written(1).ingredients
    /\ ~FileExists(disk, Join(OutDir(1), ArticleKey))
    /\ \E k \in DOMAIN Written(1).ingredients : HasPrefix(k, PayloadPrefix)
    /\ disk[TWLOutput(1, TWLProject)]
         = <<"ref", "TAB", "./payload/", "kt", "/", "god", ".md">>
    /\ disk[TWLSource(TWLProject)] = <<"ref", "TAB">> \o Token
====
